---- MODULE Spec2Model ----
(***************************************************************************)
(* pain-miner: the Pain-Point Deduplicator and the batch loop in front of  *)
(* it (analyzer.py), the Relevance Scorer (scoring.py), the commands over   *)
(* the tables (cli.py, db.py) and the Reddit fetch with its retries         *)
(* (sources/reddit.py) as state machines.                                  *)
(*                                                                         *)
(* Python strings are TLA+ strings, read character by character with       *)
(* SubSeq; a dict is a function whose domain is the set of keys present,   *)
(* so an absent key and a key holding a falsy value stay distinct.         *)
(***************************************************************************)
EXTENDS Integers, Sequences, FiniteSets, TLC

VARIABLES
    pain_points,    \* the list handed to _deduplicate_pain_points (caller's dicts)
    threshold,      \* the threshold parameter, a rational <<num, den>>
    clusters,       \* list of clusters; a cluster lists references (indices) into pain_points
    i,              \* position of the clustering loop (next candidate)
    j,              \* position of the merge loop (next cluster)
    merged_points,  \* merged_points / unique_points: [ref, cl, pp]; ref = the input
                    \* dict it is (0 for a new dict), cl = the cluster it came from
    pc,             \* position inside analyze_posts' tail
    run,            \* 1 = first Deduplicator run, 2 = run on its own output
    first_result,   \* what run 1 returned (empty until it returned)
    first_clusters, \* the clusters run 1 had built (kept for reference)
    posts,          \* the list handed to score_posts (caller's dicts, changed in place)
    cfg,            \* cfg["scoring"]: the weights, in hundredths
    topic,          \* the topic string handed to score_posts
    post_i,         \* position of the scoring loop (next post)
    spc,            \* position inside score_posts
    arrived,        \* the posts as they were when score_posts was called
    genai_installed, \* whether `from google import genai` succeeds
    api_key,        \* cfg["gemini"]["api_key"]
    posts_data,     \* the posts handed to analyze_posts, each named by its id
    batch_i,        \* `i` of the batch loop: offset of the next batch
    all_pain_points, \* candidates collected from the batches so far
    prompts,        \* the batches sent to the summarizer, in the order sent
    responses,      \* what the summarizer answered, one entry per batch sent
    apc,            \* position inside analyze_posts
    fetch_url,      \* reddit _fetch_json: `url`, the query string added
    attempt,        \* `attempt` of the retry loop
    fetch_log,      \* what each request made so far ended with
    slept,          \* the time.sleep calls made so far, in seconds
    fetch_result,   \* the value returned or the exception raised
    fpc,            \* position inside _fetch_json
    db_posts,       \* table posts: id -> the columns read later
    history,        \* table history: the (id, platform) rows
    runs,           \* table runs: the rows in insertion order
    last_run,       \* what the last command did: fetched, scored, sent to the summarizer
    commands,       \* the number of commands run so far
    searched,       \* (id, platform) of the posts a search run scored, persisted and recorded
    analyze_sent    \* id -> how often the analyze command sent the post to the summarizer

dedupVars == <<pain_points, threshold, clusters, i, j, merged_points, pc, run,
               first_result, first_clusters>>

scoreVars == <<posts, cfg, topic, post_i, spc, arrived>>

batchVars == <<genai_installed, api_key, posts_data, batch_i, all_pain_points,
               prompts, responses, apc>>

fetchVars == <<fetch_url, attempt, fetch_log, slept, fetch_result, fpc>>

cliVars == <<db_posts, history, runs, last_run, commands, searched, analyze_sent>>

restVars == <<batchVars, fetchVars, cliVars>>

vars == <<dedupVars, scoreVars, restVars>>

-----------------------------------------------------------------------------
(* Bounds *)

MaxCands == 3
MaxPosts == 2
MaxSent == 51
MaxCommands == 3

-----------------------------------------------------------------------------
(* Python built-ins used by the code *)

Char(s, k) == SubSeq(s, k, k)

UPPER == "ABCDEFGHIJKLMNOPQRSTUVWXYZ"
LOWER == "abcdefghijklmnopqrstuvwxyz"

LowerTable ==
    LET ix == [c \in {Char(UPPER, k) : k \in 1..Len(UPPER)} |->
                 CHOOSE k \in 1..Len(UPPER) : Char(UPPER, k) = c]
    IN [c \in DOMAIN ix |-> Char(LOWER, ix[c])]

LowerChar(c) == IF c \in DOMAIN LowerTable THEN LowerTable[c] ELSE c

RECURSIVE lower(_)
lower(s) ==
    IF Len(s) = 0 THEN "" ELSE LowerChar(Char(s, 1)) \o lower(SubSeq(s, 2, Len(s)))

IsSpace(c) == c \in {" ", "\t", "\n"}

RECURSIVE SplitFrom(_, _, _)
SplitFrom(s, k, cur) ==
    IF k > Len(s)
    THEN (IF cur = "" THEN <<>> ELSE <<cur>>)
    ELSE IF IsSpace(Char(s, k))
         THEN (IF cur = "" THEN SplitFrom(s, k + 1, "")
                           ELSE <<cur>> \o SplitFrom(s, k + 1, ""))
         ELSE SplitFrom(s, k + 1, cur \o Char(s, k))

split(s) == SplitFrom(s, 1, "")

Range(q) == {q[k] : k \in DOMAIN q}

\* needle in hay
Contains(hay, needle) ==
    \E k \in 1..(Len(hay) - Len(needle) + 1) :
        SubSeq(hay, k, k + Len(needle) - 1) = needle

\* d.get(key, default)
Get(d, key, default) == IF key \in DOMAIN d THEN d[key] ELSE default

\* d[key] = value
Put(d, key, value) ==
    [f \in DOMAIN d \cup {key} |-> IF f = key THEN value ELSE d[f]]

\* JSON null: a key that holds None. The keys of a dict that hold None are
\* listed under NoneKeys and are in no other way in the dict, so that
\* d.get(key, default) is Get(d, key, default) only where the code goes on
\* to use None as it would use the default.
NoneKeys == "<None>"

\* d.get(key) is None although the key is there
IsNone(d, key) == key \notin DOMAIN d /\ key \in Get(d, NoneKeys, {})

\* A field that may be absent: <<>> is absent, <<v>> is present with value v.
Field(name, opt) == IF opt = <<>> THEN <<>> ELSE <<name, opt[1]>>

\* The dict with the given (name, value) pairs
RECURSIVE Dict(_)
Dict(pairs) ==
    IF pairs = <<>> THEN <<>>
    ELSE IF Head(pairs) = <<>> THEN Dict(Tail(pairs))
    ELSE Put(Dict(Tail(pairs)), Head(pairs)[1], Head(pairs)[2])

\* (mutant) the values are added up instead
Plus(a, b) == a + b

\* max(a, b)
Max(a, b) == IF a >= b THEN a ELSE b

SetMin(S) == CHOOSE m \in S : \A n \in S : m <= n

\* list(dict.fromkeys(q)): drop repeats, keep first occurrences
RECURSIVE DedupKeepFirst(_)
DedupKeepFirst(q) ==
    IF q = <<>> THEN <<>>
    ELSE LET front == DedupKeepFirst(SubSeq(q, 1, Len(q) - 1))
             last == q[Len(q)]
         IN IF last \in Range(front) THEN front ELSE Append(front, last)

\* q[:n]
Prefix(q, n) == SubSeq(q, 1, IF Len(q) < n THEN Len(q) ELSE n)

\* Character order of the strings the code sorts (ASCII order of the
\* characters that occur in platform tags).
ALPHABET == "0123456789abcdefghijklmnopqrstuvwxyz"
Ord(c) == CHOOSE k \in 1..Len(ALPHABET) : Char(ALPHABET, k) = c

RECURSIVE StrLess(_, _)
StrLess(a, b) ==
    IF Len(b) = 0 THEN FALSE
    ELSE IF Len(a) = 0 THEN TRUE
    ELSE IF Char(a, 1) = Char(b, 1)
         THEN StrLess(SubSeq(a, 2, Len(a)), SubSeq(b, 2, Len(b)))
         ELSE Ord(Char(a, 1)) < Ord(Char(b, 1))

\* sorted(S) for a set of strings
RECURSIVE sorted(_)
sorted(S) ==
    IF S = {} THEN <<>>
    ELSE LET m == CHOOSE x \in S : \A y \in S \ {x} : StrLess(x, y)
         IN <<m>> \o sorted(S \ {m})

-----------------------------------------------------------------------------
(* analyzer.py *)

\* (mutant) without the `if not words_a or not words_b` test, two empty word
\* sets counting as equal
jaccard_similarity_empty_equal(text_a, text_b) ==
    LET words_a == Range(split(lower(text_a)))
        words_b == Range(split(lower(text_b)))
    IN IF words_a \cup words_b = {}
       THEN <<1, 1>>
       ELSE <<Cardinality(words_a \cap words_b), Cardinality(words_a \cup words_b)>>

\* _jaccard_similarity: the quotient is kept as <<numerator, denominator>>
jaccard_similarity(text_a, text_b) ==
    LET words_a == Range(split(lower(text_a)))
        words_b == Range(split(lower(text_b)))
    IN IF words_a = {} \/ words_b = {}
       THEN <<0, 1>>
       ELSE <<Cardinality(words_a \cap words_b), Cardinality(words_a \cup words_b)>>

\* sim >= threshold on quotients
AtLeast(sim, th) == sim[1] * th[2] >= th[1] * sim[2]

\* The clusters a candidate may join: those whose representative passes.
Matching(pp, cls, pts, th) ==
    {k \in 1..Len(cls) :
        AtLeast(jaccard_similarity(Get(pp, "description", ""),
                                   Get(pts[cls[k][1]], "description", "")), th)}

\* (mutant) the candidate joins the last cluster that passes, as a loop
\* without `break` that remembers its latest hit would.
AssignLastMatch(cls, n, pts, th) ==
    LET hits == Matching(pts[n], cls, pts, th)
    IN IF hits # {}
       THEN [cls EXCEPT ![CHOOSE m \in hits : \A k \in hits : k <= m] = Append(@, n)]
       ELSE Append(cls, <<n>>)

\* (mutant) the candidate is put in front of the cluster it joins:
\* `cluster.insert(0, pp)`
AssignInsertFront(cls, n, pts, th) ==
    LET hits == Matching(pts[n], cls, pts, th)
    IN IF hits # {}
       THEN [cls EXCEPT ![SetMin(hits)] = <<n>> \o @]
       ELSE Append(cls, <<n>>)

\* One iteration of `for pp in pain_points`.
Assign(cls, n, pts, th) ==
    LET hits == Matching(pts[n], cls, pts, th)
    IN IF hits # {}
       THEN [cls EXCEPT ![SetMin(hits)] = Append(@, n)]
       ELSE Append(cls, <<n>>)

\* _jaccard_similarity(desc, representative.get("description", "")) raises
\* AttributeError at `.lower()` when either text is None
JaccardRaises(pp, representative) ==
    IsNone(pp, "description") \/ IsNone(representative, "description")

\* One iteration of `for pp in pain_points` raises: a comparison that raises
\* is reached, no earlier cluster having passed (and ended the loop by `break`).
AssignRaises(cls, n, pts, th) ==
    \E k \in 1..Len(cls) :
        /\ JaccardRaises(pts[n], pts[cls[k][1]])
        /\ \A m \in 1..(k - 1) : m \notin Matching(pts[n], cls, pts, th)

\* The merge of a cluster of two or more members raises TypeError: list(None)
\* or extend(None) for the two lists, max() with a None for the two numbers.
MergeRaises(members) ==
    \E a \in 1..Len(members) :
        \E key \in {"source_urls", "representative_quotes", "unique_users",
                    "emotional_intensity"} : IsNone(members[a], key)

Truthy(q) == q # ""

\* (mutant) the body of the loop without `has_payment = True`
MergeOneKeepFlag(acc, other) ==
    LET pay == Get(other, "payment_signal", FALSE)
        takeQuote == /\ pay
                     /\ ~Truthy(Get(acc.base, "payment_quote", ""))
                     /\ Truthy(Get(other, "payment_quote", ""))
    IN [base |-> IF takeQuote
                 THEN Put(acc.base, "payment_quote", other["payment_quote"])
                 ELSE acc.base,
        all_urls |-> acc.all_urls \o Get(other, "source_urls", <<>>),
        all_quotes |-> acc.all_quotes \o Get(other, "representative_quotes", <<>>),
        max_users |-> Max(acc.max_users, Get(other, "unique_users", 0)),
        max_intensity |-> Max(acc.max_intensity, Get(other, "emotional_intensity", 0)),
        has_payment |-> acc.has_payment]

\* (mutant) the body of the loop without the `not base.get("payment_quote")`
\* test: every later member with a signal and a quote overwrites the quote
MergeOneLastQuote(acc, other) ==
    LET pay == Get(other, "payment_signal", FALSE)
        takeQuote == /\ pay
                     /\ Truthy(Get(other, "payment_quote", ""))
    IN [base |-> IF takeQuote
                 THEN Put(acc.base, "payment_quote", other["payment_quote"])
                 ELSE acc.base,
        all_urls |-> acc.all_urls \o Get(other, "source_urls", <<>>),
        all_quotes |-> acc.all_quotes \o Get(other, "representative_quotes", <<>>),
        max_users |-> Max(acc.max_users, Get(other, "unique_users", 0)),
        max_intensity |-> Max(acc.max_intensity, Get(other, "emotional_intensity", 0)),
        has_payment |-> IF pay THEN TRUE ELSE acc.has_payment]

\* (mutant) the body of the loop with the fields the base lacks taken over
\* from the member, as `for k in other: base.setdefault(k, other[k])` would
MergeOneCarryFields(acc, other) ==
    LET pay == Get(other, "payment_signal", FALSE)
        takeQuote == /\ pay
                     /\ ~Truthy(Get(acc.base, "payment_quote", ""))
                     /\ Truthy(Get(other, "payment_quote", ""))
        carried == [f \in DOMAIN acc.base \cup DOMAIN other |->
                      IF f \in DOMAIN acc.base THEN acc.base[f] ELSE other[f]]
    IN [base |-> IF takeQuote
                 THEN Put(carried, "payment_quote", other["payment_quote"])
                 ELSE carried,
        all_urls |-> acc.all_urls \o Get(other, "source_urls", <<>>),
        all_quotes |-> acc.all_quotes \o Get(other, "representative_quotes", <<>>),
        max_users |-> Max(acc.max_users, Get(other, "unique_users", 0)),
        max_intensity |-> Max(acc.max_intensity, Get(other, "emotional_intensity", 0)),
        has_payment |-> IF pay THEN TRUE ELSE acc.has_payment]

\* The body of the loop `for other in cluster[1:]`: acc holds the locals
\* base, all_urls, all_quotes, max_users, max_intensity, has_payment.
MergeOne(acc, other) ==
    LET pay == Get(other, "payment_signal", FALSE)
        takeQuote == /\ pay
                     /\ ~Truthy(Get(acc.base, "payment_quote", ""))
                     /\ Truthy(Get(other, "payment_quote", ""))
    IN [base |-> IF takeQuote
                 THEN Put(acc.base, "payment_quote", other["payment_quote"])
                 ELSE acc.base,
        all_urls |-> acc.all_urls \o Get(other, "source_urls", <<>>),
        all_quotes |-> acc.all_quotes \o Get(other, "representative_quotes", <<>>),
        max_users |-> Max(acc.max_users, Get(other, "unique_users", 0)),
        max_intensity |-> Max(acc.max_intensity, Get(other, "emotional_intensity", 0)),
        has_payment |-> IF pay THEN TRUE ELSE acc.has_payment]

\* The loop `for other in cluster[1:]`
RECURSIVE MergeRest(_, _)
MergeRest(acc, rest) ==
    IF rest = <<>> THEN acc ELSE MergeRest(MergeOne(acc, Head(rest)), Tail(rest))

MaxQuotes == 5

\* (mutant) the merge without `base["source_urls"] = ...`: the merged dict
\* keeps the first member's URLs
MergeFromBaseUrls(base, others) ==
    LET acc == MergeRest(
                 [base |-> base,
                  all_urls |-> Get(base, "source_urls", <<>>),
                  all_quotes |-> Get(base, "representative_quotes", <<>>),
                  max_users |-> Get(base, "unique_users", 0),
                  max_intensity |-> Get(base, "emotional_intensity", 0),
                  has_payment |-> Get(base, "payment_signal", FALSE)],
                 others)
        b2 == Put(acc.base, "representative_quotes", Prefix(acc.all_quotes, MaxQuotes))
        b3 == Put(b2, "unique_users", acc.max_users)
        b4 == Put(b3, "emotional_intensity", acc.max_intensity)
    IN Put(b4, "payment_signal", acc.has_payment)

\* The merge of `base` with the members `others`.
MergeFrom(base, others) ==
    LET acc == MergeRest(
                 [base |-> base,
                  all_urls |-> Get(base, "source_urls", <<>>),
                  all_quotes |-> Get(base, "representative_quotes", <<>>),
                  max_users |-> Get(base, "unique_users", 0),
                  max_intensity |-> Get(base, "emotional_intensity", 0),
                  has_payment |-> Get(base, "payment_signal", FALSE)],
                 others)
        b1 == Put(acc.base, "source_urls", DedupKeepFirst(acc.all_urls))
        b2 == Put(b1, "representative_quotes", Prefix(acc.all_quotes, MaxQuotes))
        b3 == Put(b2, "unique_users", acc.max_users)
        b4 == Put(b3, "emotional_intensity", acc.max_intensity)
    IN Put(b4, "payment_signal", acc.has_payment)

\* (mutant) the last member is taken as base: `dict(cluster[-1])`
MergeClusterLastBase(members) ==
    MergeFrom(members[Len(members)], SubSeq(members, 1, Len(members) - 1))

\* The merged dict of a cluster of two or more members: base = cluster[0].
MergeCluster(members) == MergeFrom(members[1], Tail(members))

\* One iteration of `for cluster in clusters`: a singleton is passed through
\* as the caller's own dict, a larger cluster becomes a new dict.
MergedPoint(cluster, pts) ==
    IF Len(cluster) = 1
    THEN pts[cluster[1]]
    ELSE MergeCluster([k \in 1..Len(cluster) |-> pts[cluster[k]]])

\* (mutant) independent `if`s in place of the `elif` chain: a URL gets the
\* tag of every platform it names
PlatformOfEveryMatch(url) ==
    LET url_lower == lower(url)
    IN (IF Contains(url_lower, "news.ycombinator.com") \/ Contains(url_lower, "hn_")
        THEN {"hn"} ELSE {})
       \cup (IF Contains(url_lower, "reddit.com") THEN {"reddit"} ELSE {})
       \cup (IF Contains(url_lower, "producthunt.com") THEN {"producthunt"} ELSE {})
       \cup (IF Contains(url_lower, "twitter.com") \/ Contains(url_lower, "x.com")
             THEN {"twitter"} ELSE {})
       \cup (IF Contains(url_lower, "g2.com") THEN {"g2"} ELSE {})
       \cup (IF Contains(url_lower, "capterra.com") THEN {"capterra"} ELSE {})

\* _extract_platforms: one tag per URL, first matching branch
PlatformOf(url) ==
    LET url_lower == lower(url)
    IN IF Contains(url_lower, "news.ycombinator.com") \/ Contains(url_lower, "hn_")
       THEN {"hn"}
       ELSE IF Contains(url_lower, "reddit.com") THEN {"reddit"}
       ELSE IF Contains(url_lower, "producthunt.com") THEN {"producthunt"}
       ELSE IF Contains(url_lower, "twitter.com") \/ Contains(url_lower, "x.com")
            THEN {"twitter"}
       ELSE IF Contains(url_lower, "g2.com") THEN {"g2"}
       ELSE IF Contains(url_lower, "capterra.com") THEN {"capterra"}
       ELSE {}

extract_platforms(source_urls) ==
    UNION {PlatformOf(source_urls[k]) : k \in DOMAIN source_urls}

Signal(platform_count) ==
    IF platform_count >= 3 THEN "strong"
    ELSE IF platform_count = 2 THEN "moderate"
    ELSE "single"

\* (mutant) platform_count without the floor: `len(platforms)`
TaggedNoFloor(pp) ==
    LET platforms == extract_platforms(Get(pp, "source_urls", <<>>))
        count == Cardinality(platforms)
        p1 == Put(pp, "platforms", IF platforms # {} THEN sorted(platforms) ELSE <<>>)
        p2 == Put(p1, "platform_count", count)
    IN Put(p2, "cross_platform_signal", Signal(count))

\* (mutant) platforms kept as a list in order of first appearance, unsorted
TaggedUnsorted(pp) ==
    LET urls == Get(pp, "source_urls", <<>>)
        firsts == {k \in 1..Len(urls) :
                     /\ PlatformOf(urls[k]) # {}
                     /\ \A m \in 1..(k - 1) : PlatformOf(urls[m]) # PlatformOf(urls[k])}
        platforms == [n \in 1..Cardinality(firsts) |->
                        LET k == CHOOSE x \in firsts :
                                     Cardinality({m \in firsts : m <= x}) = n
                        IN CHOOSE t \in PlatformOf(urls[k]) : TRUE]
        count == IF platforms # <<>> THEN Len(platforms) ELSE 1
        p1 == Put(pp, "platforms", platforms)
        p2 == Put(p1, "platform_count", count)
    IN Put(p2, "cross_platform_signal", Signal(count))

\* The body of the loop of _add_cross_platform_signals, for one dict.
Tagged(pp) ==
    LET platforms == extract_platforms(Get(pp, "source_urls", <<>>))
        count == IF platforms # {} THEN Cardinality(platforms) ELSE 1
        p1 == Put(pp, "platforms", IF platforms # {} THEN sorted(platforms) ELSE <<>>)
        p2 == Put(p1, "platform_count", count)
    IN Put(p2, "cross_platform_signal", Signal(count))

\* The sort key of analyze_posts
SortKey(pp) ==
    <<Get(pp, "platform_count", 1), Get(pp, "unique_users", 0),
      Get(pp, "emotional_intensity", 0)>>

\* tuple comparison a > b
KeyGreater(a, b) ==
    \/ a[1] > b[1]
    \/ a[1] = b[1] /\ a[2] > b[2]
    \/ a[1] = b[1] /\ a[2] = b[2] /\ a[3] > b[3]

\* (mutant) descending but unstable: equal keys come out in reversed order,
\* as an ascending sort followed by reverse() would leave them.
RECURSIVE SortDescReversedTies(_)
SortDescReversedTies(q) ==
    IF q = <<>> THEN <<>>
    ELSE LET front == SortDescReversedTies(SubSeq(q, 1, Len(q) - 1))
             x == q[Len(q)]
             before == {k \in 1..Len(front) :
                          KeyGreater(SortKey(front[k].pp), SortKey(x.pp))}
             cut == IF before = {} THEN 0
                    ELSE CHOOSE m \in before : \A n \in before : n <= m
         IN SubSeq(front, 1, cut) \o <<x>> \o SubSeq(front, cut + 1, Len(front))

\* list.sort(key=..., reverse=True): descending and stable. Each entry is put
\* behind every entry already placed whose key is not smaller.
RECURSIVE SortDesc(_)
SortDesc(q) ==
    IF q = <<>> THEN <<>>
    ELSE LET front == SortDesc(SubSeq(q, 1, Len(q) - 1))
             x == q[Len(q)]
             before == {k \in 1..Len(front) :
                          ~KeyGreater(SortKey(x.pp), SortKey(front[k].pp))}
             cut == IF before = {} THEN 0
                    ELSE CHOOSE m \in before : \A n \in before : n <= m
         IN SubSeq(front, 1, cut) \o <<x>> \o SubSeq(front, cut + 1, Len(front))

-----------------------------------------------------------------------------
(* Steps of the Deduplicator *)

\* `if not pain_points: return []`
ReturnEmpty ==
    /\ pc = "cluster"
    /\ pain_points = <<>>
    /\ merged_points' = <<>>
    /\ pc' = "tag"
    /\ UNCHANGED <<pain_points, threshold, clusters, i, j, run, first_result, first_clusters>>
    /\ UNCHANGED <<scoreVars, restVars>>

\* one candidate of the clustering loop
ClusterStep ==
    /\ pc = "cluster"
    /\ i <= Len(pain_points)
    /\ IF AssignRaises(clusters, i, pain_points, threshold)
       THEN /\ pc' = "raised"
            /\ UNCHANGED <<clusters, i>>
       ELSE /\ clusters' = Assign(clusters, i, pain_points, threshold)
            /\ i' = i + 1
            /\ pc' = IF i = Len(pain_points) THEN "merge" ELSE "cluster"
    /\ UNCHANGED <<pain_points, threshold, j, merged_points, run, first_result, first_clusters>>
    /\ UNCHANGED <<scoreVars, restVars>>

\* one cluster of the merge loop; after the last one the function returns
MergeStep ==
    /\ pc = "merge"
    /\ j <= Len(clusters)
    /\ IF /\ Len(clusters[j]) > 1
          /\ MergeRaises([k \in 1..Len(clusters[j]) |-> pain_points[clusters[j][k]]])
       THEN /\ pc' = "raised"
            /\ UNCHANGED <<merged_points, j>>
       ELSE /\ merged_points' =
                 Append(merged_points,
                        [ref |-> IF Len(clusters[j]) = 1 THEN clusters[j][1] ELSE 0,
                         cl |-> j,
                         pp |-> MergedPoint(clusters[j], pain_points)])
            /\ j' = j + 1
            /\ pc' = IF j = Len(clusters) THEN "tag" ELSE "merge"
    /\ UNCHANGED <<pain_points, threshold, clusters, i, run, first_result, first_clusters>>
    /\ UNCHANGED <<scoreVars, restVars>>

\* _add_cross_platform_signals(unique_points): writes into each dict; a dict
\* that is the caller's own (a singleton cluster) is changed for the caller too.
\* `for url in urls` raises TypeError at the first dict whose source_urls is
\* None; the dicts before it have been written by then.
Tag ==
    /\ pc = "tag"
    /\ LET bad == {k \in 1..Len(merged_points) : IsNone(merged_points[k].pp, "source_urls")}
           stop == IF bad = {} THEN Len(merged_points) + 1 ELSE SetMin(bad)
       IN /\ merged_points' =
               [k \in 1..Len(merged_points) |->
                  IF k < stop
                  THEN [merged_points[k] EXCEPT !.pp = Tagged(@)]
                  ELSE merged_points[k]]
          /\ pain_points' =
               [n \in 1..Len(pain_points) |->
                  IF \E k \in 1..(stop - 1) : merged_points[k].ref = n
                  THEN Tagged(pain_points[n])
                  ELSE pain_points[n]]
          /\ pc' = IF bad = {} THEN "sort" ELSE "raised"
    /\ UNCHANGED <<threshold, clusters, i, j, run, first_result, first_clusters>>
    /\ UNCHANGED <<scoreVars, restVars>>

\* unique_points.sort(...); return unique_points
Rank ==
    /\ pc = "sort"
    /\ merged_points' = SortDesc(merged_points)
    /\ pc' = "done"
    /\ first_result' = IF run = 1
                       THEN [k \in 1..Len(merged_points) |-> merged_points'[k].pp]
                       ELSE first_result
    /\ first_clusters' = IF run = 1 THEN clusters ELSE first_clusters
    /\ UNCHANGED <<pain_points, threshold, clusters, i, j, run>>
    /\ UNCHANGED <<scoreVars, restVars>>

\* The Deduplicator is run again on the list it returned, same threshold.
Rerun ==
    /\ pc = "done"
    /\ run = 1
    /\ pain_points' = first_result
    /\ clusters' = <<>>
    /\ merged_points' = <<>>
    /\ i' = 1
    /\ j' = 1
    /\ run' = 2
    /\ pc' = "cluster"
    /\ UNCHANGED <<threshold, first_result, first_clusters>>
    /\ UNCHANGED <<scoreVars, restVars>>

NextDedup ==
    \/ ReturnEmpty
    \/ ClusterStep
    \/ MergeStep
    \/ Tag
    \/ Rank
    \/ Rerun

-----------------------------------------------------------------------------
(* scoring.py *)
(* Floats are kept as integers: weights and the two returned scores in     *)
(* hundredths, the topic multiplier in twentieths (0.1 = 2, 0.15 = 3,      *)
(* 0.4 = 8, 0.8 = 16, 1.0 = 20), logarithms in ten-thousandths, raw_score  *)
(* in millionths.                                                          *)

\* (mutant) the lexicon without "wish"
PAIN_WORDS_without_wish ==
    <<"frustrat", "hate", "terrible", "awful", "slow", "expensive",
      "inconsisten", "artifact", "broken", "waste", "painful", "annoying",
      "disappoint", "useless", "garbage", "horrible", "unusable", "buggy",
      "overpriced", "scam", "misleading", "workaround", "hack", "tedious",
      "clunky", "unreliable", "laggy", "crash", "glitch">>

PAIN_WORDS ==
    <<"frustrat", "hate", "wish", "terrible", "awful", "slow", "expensive",
      "inconsisten", "artifact", "broken", "waste", "painful", "annoying",
      "disappoint", "useless", "garbage", "horrible", "unusable", "buggy",
      "overpriced", "scam", "misleading", "workaround", "hack", "tedious",
      "clunky", "unreliable", "laggy", "crash", "glitch">>

DEMAND_WORDS ==
    <<"pay for", "would pay", "need a tool", "wish there was",
      "someone should build", "is there a", "looking for",
      "alternative to", "shut up and take my money", "i'd pay",
      "take my money", "does anyone know", "am i the only one">>

stop_words ==
    {"a", "an", "the", "and", "or", "for", "of", "to", "in", "on", "with",
     "is", "are", "was", "were", "be", "been", "being", "that", "this",
     "it", "its", "my", "your", "our", "their", "what", "how", "why"}

\* the characters of the class [a-z0-9]
AlnumChars == {Char(ALPHABET, k) : k \in 1..Len(ALPHABET)}

\* re.findall(r"[a-z0-9]+", s): the maximal runs of [a-z0-9]
RECURSIVE FindAllFrom(_, _, _)
FindAllFrom(s, k, cur) ==
    IF k > Len(s)
    THEN (IF cur = "" THEN <<>> ELSE <<cur>>)
    ELSE IF Char(s, k) \notin AlnumChars
         THEN (IF cur = "" THEN FindAllFrom(s, k + 1, "")
                           ELSE <<cur>> \o FindAllFrom(s, k + 1, ""))
         ELSE FindAllFrom(s, k + 1, cur \o Char(s, k))

KeptWord(w) == w \notin stop_words /\ Len(w) >= 2

\* the stems one word contributes
StemsOf(w) ==
    IF Char(w, Len(w)) = "s" /\ Len(w) > 3
    THEN {w, SubSeq(w, 1, Len(w) - 1)}
    ELSE {w, w \o "s"}

\* (mutant) the phrases built from the singular of a word that ends in "s"
extract_topic_keywords_stemmed_phrases(t) ==
    LET raw_words == FindAllFrom(lower(t), 1, "")
        words == SelectSeq(raw_words, KeptWord)
        stem(w) == IF Char(w, Len(w)) = "s" /\ Len(w) > 3
                   THEN SubSeq(w, 1, Len(w) - 1) ELSE w
    IN [words |-> words,
        stems |-> UNION {StemsOf(words[k]) : k \in 1..Len(words)},
        phrases |-> [k \in 1..(Len(words) - 1) |-> stem(words[k]) \o " " \o stem(words[k + 1])]]

extract_topic_keywords(t) ==
    LET raw_words == FindAllFrom(lower(t), 1, "")
        words == SelectSeq(raw_words, KeptWord)
    IN [words |-> words,
        stems |-> UNION {StemsOf(words[k]) : k \in 1..Len(words)},
        phrases |-> [k \in 1..(Len(words) - 1) |-> words[k] \o " " \o words[k + 1]]]

\* Python None (and any empty dict): falsy
None == <<>>
IsTruthy(d) == DOMAIN d # {}

Min(a, b) == IF a <= b THEN a ELSE b

\* (mutant) a phrase match without the base of 0.6: `min(1.0, 0.2 * phrase_matches)`
topic_relevance_no_base(text, topic_info) ==
    IF ~IsTruthy(topic_info) THEN 20
    ELSE
    LET phrases == topic_info.phrases
        stems == topic_info.stems
        phrase_matches == Cardinality({k \in 1..Len(phrases) : Contains(text, phrases[k])})
        word_matches == Cardinality({w \in stems : Contains(text, w)})
        total_words == Len(topic_info.words)
    IN IF phrase_matches >= 1 THEN Min(20, 4 * phrase_matches)
       ELSE IF word_matches = 0 THEN 0
       ELSE IF word_matches = 1 /\ total_words > 1 THEN 2
       ELSE IF word_matches >= total_words THEN 8
       ELSE 3

\* (mutant) without the `word_matches == 0` branch
topic_relevance_no_reject(text, topic_info) ==
    IF ~IsTruthy(topic_info) THEN 20
    ELSE
    LET phrases == topic_info.phrases
        stems == topic_info.stems
        phrase_matches == Cardinality({k \in 1..Len(phrases) : Contains(text, phrases[k])})
        word_matches == Cardinality({w \in stems : Contains(text, w)})
        total_words == Len(topic_info.words)
    IN IF phrase_matches >= 1 THEN Min(20, 12 + 4 * phrase_matches)
       ELSE IF word_matches = 1 /\ total_words > 1 THEN 2
       ELSE IF word_matches >= total_words THEN 8
       ELSE 3

\* _topic_relevance, in twentieths
topic_relevance(text, topic_info) ==
    IF ~IsTruthy(topic_info) THEN 20
    ELSE
    LET phrases == topic_info.phrases
        stems == topic_info.stems
        phrase_matches == Cardinality({k \in 1..Len(phrases) : Contains(text, phrases[k])})
        word_matches == Cardinality({w \in stems : Contains(text, w)})
        total_words == Len(topic_info.words)
    IN IF phrase_matches >= 1 THEN Min(20, 12 + 4 * phrase_matches)
       ELSE IF word_matches = 0 THEN 0
       ELSE IF word_matches = 1 /\ total_words > 1 THEN 2
       ELSE IF word_matches >= total_words THEN 8
       ELSE 3

\* math.log1p in ten-thousandths (rounded down), for the points that occur
log1p(x) ==
    CASE x = 1 -> 6931
      [] x = 2 -> 10986
      [] x = 3 -> 13862
      [] x = 147 -> 49972
      [] x = 148 -> 50039
      [] x = 200 -> 53033

\* round(x / d) to the nearest integer, ties to the even one
RoundDiv(x, d) ==
    LET q == x \div d
        r == x % d
    IN IF 2 * r < d THEN q
       ELSE IF 2 * r > d THEN q + 1
       ELSE IF q % 2 = 0 THEN q ELSE q + 1

\* The text score_post reads
TextOf(post) == lower(Get(post, "title", "") \o " " \o Get(post, "body", ""))

\* (mutant) the cross-query term is subtracted
RawScoreMinusQueries(weights, pain_count, demand_count, n_queries, engagement, length_bonus) ==
    Get(weights, "pain_weight", 30) * pain_count * 8 * 10000
    + Get(weights, "demand_weight", 25) * demand_count * 15 * 10000
    - Get(weights, "cross_query_weight", 15) * n_queries * 4 * 10000
    + Get(weights, "engagement_weight", 30) * engagement * 2
    + length_bonus

\* raw_score in millionths
RawScore(weights, pain_count, demand_count, n_queries, engagement, length_bonus) ==
    Get(weights, "pain_weight", 30) * pain_count * 8 * 10000
    + Get(weights, "demand_weight", 25) * demand_count * 15 * 10000
    + Get(weights, "cross_query_weight", 15) * n_queries * 4 * 10000
    + Get(weights, "engagement_weight", 30) * engagement * 2
    + length_bonus

score_post(post, weights, topic_info) ==
    LET text == TextOf(post)
        points == Get(post, "points", 0)
        n_queries == Len(Get(post, "matched_queries", <<>>))
        pain_count == Cardinality({k \in 1..Len(PAIN_WORDS) : Contains(text, PAIN_WORDS[k])})
        demand_count == Cardinality({k \in 1..Len(DEMAND_WORDS) : Contains(text, DEMAND_WORDS[k])})
        engagement == IF points > 0 THEN Min(log1p(points), 50000) ELSE 0
        length_bonus == Min(Len(text) * 2000, 2000000)
        topic_mult == IF IsTruthy(topic_info) THEN topic_relevance(text, topic_info) ELSE 20
        raw_score == RawScore(weights, pain_count, demand_count, n_queries,
                              engagement, length_bonus)
        relevance == raw_score * topic_mult
    IN [pain_score |-> pain_count,
        demand_score |-> demand_count,
        relevance_score |-> RoundDiv(relevance, 200000),
        topic_relevance |-> topic_mult * 5]

\* score_post raises TypeError: None + " " or "" + " " + None for the text,
\* None > 0 for the points, len(None) for the queries
score_post_raises(post) ==
    \E key \in {"title", "body", "points", "matched_queries"} : IsNone(post, key)

\* d.update(e)
Update(d, e) ==
    [f \in DOMAIN d \cup DOMAIN e |-> IF f \in DOMAIN e THEN e[f] ELSE d[f]]

\* (mutant) descending but with equal scores in reversed arrival order, as
\* an ascending sort followed by reverse() would leave them
RECURSIVE SortPostsDescReversedTies(_)
SortPostsDescReversedTies(q) ==
    IF q = <<>> THEN <<>>
    ELSE LET front == SortPostsDescReversedTies(SubSeq(q, 1, Len(q) - 1))
             x == q[Len(q)]
             before == {k \in 1..Len(front) :
                          front[k]["relevance_score"] > x["relevance_score"]}
             cut == IF before = {} THEN 0
                    ELSE CHOOSE m \in before : \A k \in before : k <= m
         IN SubSeq(front, 1, cut) \o <<x>> \o SubSeq(front, cut + 1, Len(front))

\* posts.sort(key=lambda x: x["relevance_score"], reverse=True): stable
RECURSIVE SortPostsDesc(_)
SortPostsDesc(q) ==
    IF q = <<>> THEN <<>>
    ELSE LET front == SortPostsDesc(SubSeq(q, 1, Len(q) - 1))
             x == q[Len(q)]
             before == {k \in 1..Len(front) :
                          front[k]["relevance_score"] >= x["relevance_score"]}
             cut == IF before = {} THEN 0
                    ELSE CHOOSE m \in before : \A k \in before : k <= m
         IN SubSeq(front, 1, cut) \o <<x>> \o SubSeq(front, cut + 1, Len(front))

\* (mutant) a topic without keywords counts as no topic
TopicInfoKeywordsOrNone(t) ==
    IF t # "" /\ extract_topic_keywords(t).words # <<>>
    THEN extract_topic_keywords(t) ELSE None

\* `topic_info = _extract_topic_keywords(topic) if topic else None`
TopicInfo(t) == IF t # "" THEN extract_topic_keywords(t) ELSE None

-----------------------------------------------------------------------------
(* Steps of score_posts *)

\* one post of the loop: score it and write the scores into the caller's dict
ScoreStep ==
    /\ spc = "score"
    /\ post_i <= Len(posts)
    /\ IF score_post_raises(posts[post_i])
       THEN /\ spc' = "raised"
            /\ UNCHANGED <<posts, post_i>>
       ELSE /\ posts' = [posts EXCEPT ![post_i] =
                            Update(@, score_post(@, cfg, TopicInfo(topic)))]
            /\ post_i' = post_i + 1
            /\ UNCHANGED spc
    /\ UNCHANGED <<cfg, topic, arrived>>
    /\ UNCHANGED <<dedupVars, restVars>>

\* the sort behind the loop, and the return
SortPosts ==
    /\ spc = "score"
    /\ post_i > Len(posts)
    /\ posts' = SortPostsDesc(posts)
    /\ spc' = "done"
    /\ UNCHANGED <<cfg, topic, post_i, arrived>>
    /\ UNCHANGED <<dedupVars, restVars>>

NextScore ==
    \/ ScoreStep
    \/ SortPosts

-----------------------------------------------------------------------------
(* analyzer.py: analyze_posts, the batch loop in front of the Deduplicator *)

startswith(s, p) == Len(s) >= Len(p) /\ SubSeq(s, 1, Len(p)) = p

endswith(s, p) == Len(s) >= Len(p) /\ SubSeq(s, Len(s) - Len(p) + 1, Len(s)) = p

\* s.strip()
RECURSIVE strip(_)
strip(s) ==
    IF Len(s) = 0 THEN s
    ELSE IF IsSpace(Char(s, 1)) THEN strip(SubSeq(s, 2, Len(s)))
    ELSE IF IsSpace(Char(s, Len(s))) THEN strip(SubSeq(s, 1, Len(s) - 1))
    ELSE s

\* s.split("\n", 1)[1] for an s that holds a newline
AfterFirstLine(s) ==
    LET at == SetMin({k \in 1..Len(s) : Char(s, k) = "\n"})
    IN SubSeq(s, at + 1, Len(s))

\* The three characters of a markdown code fence; a string of this module
\* cannot hold the grave accent, an apostrophe stands for it.
Fence == "'''"

\* (mutant) the response text is only stripped of white space
StripFencesNot(text) == strip(text)

\* response.text.strip() and the removal of the markdown code fence
StripFences(text) ==
    LET t1 == strip(text)
        t2 == IF startswith(t1, Fence)
              THEN (IF Contains(t1, "\n") THEN AfterFirstLine(t1)
                                           ELSE SubSeq(t1, 4, Len(t1)))
              ELSE t1
        t3 == IF endswith(t2, Fence) THEN SubSeq(t2, 1, Len(t2) - 3) ELSE t2
        t4 == IF startswith(t3, "json") THEN SubSeq(t3, 5, Len(t3)) ELSE t3
    IN strip(t4)

\* The JSON documents that occur in the answers, with the value json.loads
\* gives for each: a list of candidates, a dict, None.
JsonDocs ==
    [t \in {"[]", "[{\"description\": \"a\"}]",
            "[{\"description\": \"b c\", \"source_urls\": [\"hn_1\"]}, {\"description\": \"a\"}]",
            "[{\"description\": null}, {\"description\": null}]",
            "{\"error\": \"quota\"}", "null", "{\"data\": {\"children\": []}}"} |->
        CASE t = "[]" -> [type |-> "list", value |-> <<>>]
          [] t = "[{\"description\": \"a\"}]" ->
                [type |-> "list", value |-> <<Dict(<<Field("description", <<"a">>)>>)>>]
          [] t = "[{\"description\": \"b c\", \"source_urls\": [\"hn_1\"]}, {\"description\": \"a\"}]" ->
                [type |-> "list",
                 value |-> <<Dict(<<Field("description", <<"b c">>),
                                    Field("source_urls", << <<"hn_1">> >>)>>),
                             Dict(<<Field("description", <<"a">>)>>)>>]
          [] t = "[{\"description\": null}, {\"description\": null}]" ->
                [type |-> "list",
                 value |-> <<Dict(<<Field(NoneKeys, <<{"description"}>>)>>),
                             Dict(<<Field(NoneKeys, <<{"description"}>>)>>)>>]
          [] t = "{\"error\": \"quota\"}" -> [type |-> "dict", value |-> <<>>]
          [] t = "null" -> [type |-> "NoneType", value |-> <<>>]
          [] t = "{\"data\": {\"children\": []}}" ->
                [type |-> "dict", value |-> [data |-> [children |-> <<>>]]]]

\* json.loads(text); any other text raises JSONDecodeError
json_loads(text) ==
    IF text \in DOMAIN JsonDocs THEN JsonDocs[text]
    ELSE [type |-> "JSONDecodeError", value |-> <<>>]

\* (mutant) each batch replaces what the earlier batches gave
CollectLastBatch(acc, response) ==
    IF response.raises THEN acc
    ELSE LET parsed == json_loads(StripFences(response.text))
         IN IF parsed.type = "list" THEN parsed.value ELSE acc

\* The body of `try` for one batch and its two `except` clauses: what
\* all_pain_points is after the batch
Collect(acc, response) ==
    IF response.raises THEN acc
    ELSE LET parsed == json_loads(StripFences(response.text))
         IN IF parsed.type = "list" THEN acc \o parsed.value ELSE acc

batch_size == 25

\* threshold=0.5
DefaultThreshold == <<1, 2>>

\* posts_data[i:i + batch_size]
Batch(data, at) ==
    SubSeq(data, at + 1, IF at + batch_size < Len(data) THEN at + batch_size ELSE Len(data))

\* the two early returns: no google-genai, or no API key
NoClient ==
    /\ apc = "start"
    /\ ~genai_installed \/ api_key = ""
    /\ apc' = "returned"
    /\ UNCHANGED <<genai_installed, api_key, posts_data, batch_i, all_pain_points,
                   prompts, responses>>
    /\ UNCHANGED <<dedupVars, scoreVars, fetchVars, cliVars>>

\* the client is made, posts_data is built, the loop is entered
Prepare ==
    /\ apc = "start"
    /\ genai_installed /\ api_key # ""
    /\ apc' = "batch"
    /\ batch_i' = 0
    /\ all_pain_points' = <<>>
    /\ UNCHANGED <<genai_installed, api_key, posts_data, prompts, responses>>
    /\ UNCHANGED <<dedupVars, scoreVars, fetchVars, cliVars>>

\* one batch of the loop: the call, the parse, the two except clauses
BatchStep(Answers) ==
    /\ apc = "batch"
    /\ batch_i < Len(posts_data)
    /\ \E response \in Answers :
          /\ prompts' = Append(prompts, Batch(posts_data, batch_i))
          /\ responses' = Append(responses, response)
          /\ all_pain_points' = Collect(all_pain_points, response)
    /\ batch_i' = batch_i + batch_size
    /\ UNCHANGED <<genai_installed, api_key, posts_data, apc>>
    /\ UNCHANGED <<dedupVars, scoreVars, fetchVars, cliVars>>

\* `unique_points = _deduplicate_pain_points(all_pain_points)`: the call
Deduplicate ==
    /\ apc = "batch"
    /\ batch_i >= Len(posts_data)
    /\ apc' = "dedup"
    /\ pain_points' = all_pain_points
    /\ threshold' = DefaultThreshold
    /\ clusters' = <<>>
    /\ i' = 1
    /\ j' = 1
    /\ merged_points' = <<>>
    /\ pc' = "cluster"
    /\ UNCHANGED <<run, first_result, first_clusters>>
    /\ UNCHANGED <<genai_installed, api_key, posts_data, batch_i, all_pain_points,
                   prompts, responses>>
    /\ UNCHANGED <<scoreVars, fetchVars, cliVars>>

-----------------------------------------------------------------------------
(* sources/reddit.py: _fetch_json *)

max_retries == 3

\* urllib.parse.urlencode for the one-key dicts of plain words used here
urlencode(params) ==
    LET key == CHOOSE k \in DOMAIN params : TRUE
    IN key \o "=" \o params[key]

\* What one pass through the `try` ends with: the exception it raises, or
\* the value it returns. The request gives an HTTP error status, fails below
\* HTTP (URLError, timeout), or gives a body for json.loads.
TryResult(outcome) ==
    CASE outcome.kind = "http" -> [raised |-> TRUE, type |-> "HTTPError", code |-> outcome.code, value |-> <<>>]
      [] outcome.kind = "urlerror" -> [raised |-> TRUE, type |-> "URLError", code |-> 0, value |-> <<>>]
      [] outcome.kind = "body" ->
           LET parsed == json_loads(outcome.body)
           IN IF parsed.type = "JSONDecodeError"
              THEN [raised |-> TRUE, type |-> "JSONDecodeError", code |-> 0, value |-> <<>>]
              ELSE [raised |-> FALSE, type |-> parsed.type, code |-> 0, value |-> parsed.value]

\* (mutant) every HTTP error is retried like a 429
RetryAnyHTTPError(exc, n) == n < max_retries - 1

\* Whether the except clause that catches exc ends in `continue`
Retry(exc, n) ==
    IF exc.type = "HTTPError"
    THEN exc.code = 429 /\ n < max_retries - 1
    ELSE n < max_retries - 1

\* The seconds slept before the retry
Wait(exc, n) == IF exc.type = "HTTPError" THEN 2 ^ (n + 1) ELSE 2 ^ n

\* One iteration of `for attempt in range(max_retries)`. The `return {}`
\* behind the loop needs attempt = max_retries here, which the last
\* iteration never leaves behind: it returns or raises.
Attempt(Outcomes) ==
    /\ fpc = "try"
    /\ attempt < max_retries
    /\ \E outcome \in Outcomes :
          LET r == TryResult(outcome)
          IN /\ fetch_log' = Append(fetch_log, outcome)
             /\ IF ~r.raised
                THEN /\ fpc' = "returned"
                     /\ fetch_result' = r
                     /\ UNCHANGED <<attempt, slept>>
                ELSE IF Retry(r, attempt)
                THEN /\ slept' = Append(slept, Wait(r, attempt))
                     /\ attempt' = attempt + 1
                     /\ UNCHANGED <<fpc, fetch_result>>
                ELSE /\ fpc' = "raised"
                     /\ fetch_result' = r
                     /\ UNCHANGED <<attempt, slept>>
    /\ UNCHANGED fetch_url
    /\ UNCHANGED <<dedupVars, scoreVars, batchVars, cliVars>>

-----------------------------------------------------------------------------
(* cli.py and db.py: the commands search, import and analyze over the tables *)

\* db.is_processed(post_id, platform)
is_processed(h, post_id, platform) == <<post_id, platform>> \in h

\* db.insert_posts(posts): INSERT OR IGNORE on the primary key id; the column
\* analyzed is not in the column list and takes its default 0. Of the
\* columns, those that a later SELECT or UPDATE of the commands reads.
RECURSIVE insert_posts(_, _)
insert_posts(tbl, ps) ==
    IF ps = <<>> THEN tbl
    ELSE LET p == Head(ps)
             row == [platform |-> p["platform"],
                     topic |-> Get(p, "topic", ""),
                     relevance_score |-> Get(p, "relevance_score", 0),
                     analyzed |-> 0]
         IN insert_posts(IF p["id"] \in DOMAIN tbl THEN tbl ELSE Put(tbl, p["id"], row),
                         Tail(ps))

\* db.mark_history(post_ids, platform): INSERT OR IGNORE on (id, platform)
mark_history(h, post_ids, platform) ==
    h \cup {<<post_ids[k], platform>> : k \in DOMAIN post_ids}

\* db.get_top_posts(topic, limit, min_score): the ids of the rows selected.
\* ORDER BY relevance_score DESC leaves the order of equal scores open:
\* every descending order is a possible result.
get_top_posts(tbl, t, limit, min_score) ==
    LET ids == {id \in DOMAIN tbl : /\ tbl[id].topic = t
                                    /\ tbl[id].analyzed = 0
                                    /\ tbl[id].relevance_score >= min_score}
        orders == {q \in [1..Cardinality(ids) -> ids] :
                     /\ \A a, b \in DOMAIN q : a # b => q[a] # q[b]
                     /\ \A a, b \in DOMAIN q :
                          a < b => tbl[q[a]].relevance_score >= tbl[q[b]].relevance_score}
    IN {Prefix(q, limit) : q \in orders}

\* db.mark_analyzed(post_ids, [None, ...]): UPDATE posts SET analyzed=1 WHERE id=?
mark_analyzed(tbl, post_ids) ==
    [id \in DOMAIN tbl |->
        IF id \in Range(post_ids) THEN [tbl[id] EXCEPT !.analyzed = 1] ELSE tbl[id]]

\* db.save_run(topic, platforms, posts_fetched, posts_analyzed, report_path)
save_run(rs, t, platforms, posts_fetched, posts_analyzed) ==
    Append(rs, [topic |-> t, platforms |-> platforms,
                posts_fetched |-> posts_fetched, posts_analyzed |-> posts_analyzed])

\* scoring.score_posts(posts, cfg, topic) as a function of its arguments
score_posts(ps, weights, t) ==
    SortPostsDesc([k \in 1..Len(ps) |-> Update(ps[k], score_post(ps[k], weights, TopicInfo(t)))])

\* cfg["scoring"].get("min_score_for_analysis", 10), in hundredths
min_score_for_analysis == 1000

\* cfg["gemini"].get("max_posts_to_analyze", 50)
max_posts_to_analyze == 50

IdsOf(ps) == [k \in 1..Len(ps) |-> ps[k]["id"]]

\* [p for p in scored if p["relevance_score"] >= min_score][:max_analyze]
ToAnalyze(scored) ==
    LET Above(p) == p["relevance_score"] >= min_score_for_analysis
    IN Prefix(IdsOf(SelectSeq(scored, Above)), max_posts_to_analyze)

\* the batches of analyze_posts' loop, in order
RECURSIVE BatchesFrom(_, _)
BatchesFrom(data, at) ==
    IF at >= Len(data) THEN <<>>
    ELSE <<Batch(data, at)>> \o BatchesFrom(data, at + batch_size)

\* all_pain_points behind the loop, given the answer to each batch
RECURSIVE CollectAll(_)
CollectAll(answers) ==
    IF answers = <<>> THEN <<>>
    ELSE Collect(CollectAll(SubSeq(answers, 1, Len(answers) - 1)), answers[Len(answers)])

\* the clustering loop of the Deduplicator run to its end or to the
\* iteration that raises
RECURSIVE ClusterFrom(_, _, _, _)
ClusterFrom(cls, n, pts, th) ==
    IF n > Len(pts) THEN [raised |-> FALSE, clusters |-> cls]
    ELSE IF AssignRaises(cls, n, pts, th) THEN [raised |-> TRUE, clusters |-> cls]
    ELSE ClusterFrom(Assign(cls, n, pts, th), n + 1, pts, th)

\* The tail of analyze_posts (Deduplicator, platform tags) raises on these
\* candidates: in the clustering loop, in a merge, or at the tag of a dict
\* whose source_urls is None
AnalysisRaises(cands) ==
    LET c == ClusterFrom(<<>>, 1, cands, DefaultThreshold)
        Members(k) == [m \in 1..Len(c.clusters[k]) |-> cands[c.clusters[k][m]]]
    IN \/ c.raised
       \/ \E k \in 1..Len(c.clusters) : Len(c.clusters[k]) > 1 /\ MergeRaises(Members(k))
       \/ \E k \in 1..Len(c.clusters) :
             Len(c.clusters[k]) = 1 /\ IsNone(cands[c.clusters[k][1]], "source_urls")

\* analyzer.analyze_posts(posts, topic, cfg) with google-genai installed:
\* the batches sent with the answer to each, and whether the call raises
analyze_posts(ids, key, answers) ==
    IF key = "" THEN [sent |-> <<>>, raised |-> FALSE]
    ELSE [sent |-> [k \in 1..Len(BatchesFrom(ids, 0)) |->
                       [batch |-> BatchesFrom(ids, 0)[k], response |-> answers[k]]],
          raised |-> AnalysisRaises(CollectAll(answers))]

NotCalled == [sent |-> <<>>, raised |-> FALSE]

\* last_run of a command that returned before it scored anything
NoRun == [cmd |-> "", fetched |-> <<>>, scored |-> <<>>, sent |-> <<>>, crashed |-> FALSE]

\* The count of the posts the analyze command sent, after one more call
CountSent(counts, sent) ==
    LET now == UNION {Range(sent[k].batch) : k \in DOMAIN sent}
    IN [id \in DOMAIN counts \cup now |->
          Get(counts, id, 0) + (IF id \in now THEN 1 ELSE 0)]

\* Phases 2 to 6 of cmd_search and the same steps of cmd_import: score,
\* persist, record in history under `label`, analyze, mark, save the run.
\* An exception out of analyze_posts ends the command where it is.
Pipeline(cmd, all_posts, new_posts, t, label, no_analyze, key, Ans) ==
    LET scored == score_posts(new_posts, <<>>, t)
        to_analyze == IF no_analyze THEN <<>> ELSE ToAnalyze(scored)
        analyze == ~no_analyze /\ to_analyze # <<>> /\ key # ""
    IN \E answers \in [1..(IF analyze THEN Len(BatchesFrom(to_analyze, 0)) ELSE 0) -> Ans] :
          LET out == IF analyze THEN analyze_posts(to_analyze, key, answers) ELSE NotCalled
              stored == insert_posts(db_posts, scored)
          IN /\ history' = mark_history(history, IdsOf(scored), label)
             /\ db_posts' = IF analyze /\ ~out.raised
                            THEN mark_analyzed(stored, to_analyze) ELSE stored
             /\ runs' = IF out.raised THEN runs
                        ELSE save_run(runs, t, label, Len(scored),
                                      IF analyze THEN Len(to_analyze) ELSE 0)
             /\ last_run' = [cmd |-> cmd,
                             fetched |-> [k \in 1..Len(all_posts) |->
                                            <<all_posts[k]["id"], all_posts[k]["platform"]>>],
                             scored |-> IdsOf(scored),
                             sent |-> out.sent,
                             crashed |-> out.raised]
             /\ searched' = IF cmd = "search"
                            THEN searched \cup {<<scored[k]["id"], scored[k]["platform"]>> :
                                                  k \in 1..Len(scored)}
                            ELSE searched

\* cmd_search: one run of `pain-miner search TOPIC`
CmdSearch(Fetches, t, Keys, Ans) ==
    /\ commands < MaxCommands
    /\ commands' = commands + 1
    /\ \E all_posts \in Fetches, no_analyze \in BOOLEAN, key \in Keys :
          IF all_posts = <<>>
          THEN /\ last_run' = [NoRun EXCEPT !.cmd = "search"]
               /\ UNCHANGED <<db_posts, history, runs, searched>>
          ELSE LET New(p) == ~is_processed(history, p["id"], p["platform"])
               IN Pipeline("search", all_posts, SelectSeq(all_posts, New), t, "mixed",
                           no_analyze, key, Ans)
    /\ UNCHANGED analyze_sent
    /\ UNCHANGED <<dedupVars, scoreVars, batchVars, fetchVars>>

\* cmd_import: one run of `pain-miner import FILE --topic TOPIC --platform P`
\* on a file whose items carry an id
CmdImport(Files, t, Platforms, Keys, Ans) ==
    /\ commands < MaxCommands
    /\ commands' = commands + 1
    /\ \E raw \in Files, platform \in Platforms, no_analyze \in BOOLEAN, key \in Keys :
          LET ps == [k \in 1..Len(raw) |->
                       Update(raw[k], [platform |-> platform, topic |-> t,
                                       matched_queries |-> <<"import">>])]
              New(p) == ~is_processed(history, p["id"], p["platform"])
              new_posts == SelectSeq(ps, New)
          IN IF new_posts = <<>>
             THEN /\ last_run' = [NoRun EXCEPT !.cmd = "import",
                                    !.fetched = [k \in 1..Len(ps) |-> <<ps[k]["id"], platform>>]]
                  /\ UNCHANGED <<db_posts, history, runs, searched>>
             ELSE Pipeline("import", ps, new_posts, t, platform, no_analyze, key, Ans)
    /\ UNCHANGED analyze_sent
    /\ UNCHANGED <<dedupVars, scoreVars, batchVars, fetchVars>>

\* cmd_analyze: one run of `pain-miner analyze --topic TOPIC`
CmdAnalyze(t, Keys, Ans) ==
    /\ commands < MaxCommands
    /\ commands' = commands + 1
    /\ \E ids \in get_top_posts(db_posts, t, max_posts_to_analyze, min_score_for_analysis),
          key \in Keys :
          IF ids = <<>>
          THEN /\ last_run' = [NoRun EXCEPT !.cmd = "analyze"]
               /\ UNCHANGED <<db_posts, analyze_sent>>
          ELSE \E answers \in [1..(IF key = "" THEN 0 ELSE Len(BatchesFrom(ids, 0))) -> Ans] :
                  LET out == analyze_posts(ids, key, answers)
                  IN /\ db_posts' = IF out.raised THEN db_posts
                                    ELSE mark_analyzed(db_posts, ids)
                     /\ analyze_sent' = CountSent(analyze_sent, out.sent)
                     /\ last_run' = [cmd |-> "analyze", fetched |-> <<>>, scored |-> <<>>,
                                     sent |-> out.sent, crashed |-> out.raised]
    /\ UNCHANGED <<history, runs, searched>>
    /\ UNCHANGED <<dedupVars, scoreVars, batchVars, fetchVars>>

-----------------------------------------------------------------------------
(* Inputs *)

SeqsUpTo(S, n) == UNION {[1..m -> S] : m \in 0..n}

BatchIdle ==
    /\ genai_installed = TRUE
    /\ api_key = ""
    /\ posts_data = <<>>
    /\ batch_i = 0
    /\ all_pain_points = <<>>
    /\ prompts = <<>>
    /\ responses = <<>>
    /\ apc = "idle"

FetchIdle ==
    /\ fetch_url = ""
    /\ attempt = 0
    /\ fetch_log = <<>>
    /\ slept = <<>>
    /\ fetch_result = <<>>
    /\ fpc = "idle"

CliIdle ==
    /\ db_posts = <<>>
    /\ history = {}
    /\ runs = <<>>
    /\ last_run = NoRun
    /\ commands = 0
    /\ searched = {}
    /\ analyze_sent = <<>>

RestIdle == BatchIdle /\ FetchIdle /\ CliIdle

InitDedup(Cands, Thresholds) ==
    /\ pain_points \in SeqsUpTo(Cands, MaxCands)
    /\ threshold \in Thresholds
    /\ clusters = <<>>
    /\ i = 1
    /\ j = 1
    /\ merged_points = <<>>
    /\ pc = "cluster"
    /\ run = 1
    /\ first_result = <<>>
    /\ first_clusters = <<>>
    /\ posts = <<>>
    /\ cfg = <<>>
    /\ topic = ""
    /\ post_i = 1
    /\ spc = "idle"
    /\ arrived = <<>>
    /\ RestIdle

\* Candidates that differ in description (absent, empty, equal word sets in
\* another spelling, overlapping word sets) and in their URLs
DescCands ==
    {Dict(<<Field("description", d), Field("source_urls", u)>>) :
        d \in {<<>>, <<"">>, <<"a b">>, <<"a c d">>, <<"A  b c D">>},
        u \in {<<>>, << <<"Reddit.com/r/a", "hn_2">> >>}}

Thresholds == {<<1, 4>>, <<1, 2>>, <<1, 1>>}

Init == InitDedup(DescCands, Thresholds)

Spec == Init /\ [][NextDedup]_vars

\* Candidates that differ in the three ranking fields; equal descriptions merge
RankCands ==
    {Dict(<<Field("description", <<d>>), Field("source_urls", <<u>>),
            Field("unique_users", ue[1]), Field("emotional_intensity", ue[2])>>) :
        d \in {"a", "b", "c"},
        u \in {<<"hn_1">>, <<"reddit.com/r/x", "g2.com/z">>},
        ue \in {<< <<>>, <<2>> >>, << <<1>>, <<1>> >>, << <<1>>, <<2>> >>}}

InitRank == InitDedup(RankCands, {DefaultThreshold})

SpecRank == InitRank /\ [][NextDedup]_vars

\* Candidates that differ in their URL lists
TagCands ==
    {Dict(<<Field("description", <<d>>), Field("source_urls", u)>>) :
        d \in {"a", "b"},
        u \in {<<>>,
               << <<"ex.org/p">> >>,
               << <<"news.ycombinator.com/1">> >>,
               << <<"Reddit.com/x", "g2.com/z">> >>,
               << <<"g2.com/z", "twitter.com/u">> >>}}

InitTag == InitDedup(TagCands, {DefaultThreshold})

SpecTag == InitTag /\ [][NextDedup]_vars

\* Candidates that differ in payment_signal and payment_quote
PayCands ==
    {Dict(<<Field("description", <<d>>), Field("payment_signal", sq[1]),
            Field("payment_quote", sq[2])>>) :
        d \in {"a", "b"},
        sq \in {<< <<>>, <<>> >>, << <<FALSE>>, <<>> >>, << <<FALSE>>, <<"">> >>,
                << <<TRUE>>, <<>> >>, << <<TRUE>>, <<"q1">> >>, << <<TRUE>>, <<"q2">> >>,
                << <<FALSE>>, <<"q3">> >>, << <<>>, <<"q4">> >>}}

InitPay == InitDedup(PayCands, {DefaultThreshold})

SpecPay == InitPay /\ [][NextDedup]_vars

\* Candidates that differ in their quote lists
QuoteCands ==
    {Dict(<<Field("description", <<d>>), Field("representative_quotes", q)>>) :
        d \in {"a", "b"},
        q \in {<<>>,
               << <<>> >>,
               << <<"q1", "q2">> >>,
               << <<"q3", "q4", "q5">> >>,
               << <<"q6", "q7", "q8", "q9", "q10", "q11">> >>}}

InitQuote == InitDedup(QuoteCands, {DefaultThreshold})

SpecQuote == InitQuote /\ [][NextDedup]_vars

\* Candidates that differ in their URL lists: disjoint, overlapping with
\* another candidate's, and one URL listed twice by the same candidate
UrlCands ==
    {Dict(<<Field("description", <<d>>), Field("source_urls", u)>>) :
        d \in {"a", "b"},
        u \in {<<>>,
               << <<"u1", "u2">> >>,
               << <<"u2", "u3", "u1">> >>,
               << <<"u4", "u4">> >>}}

InitUrl == InitDedup(UrlCands, {DefaultThreshold})

SpecUrl == InitUrl /\ [][NextDedup]_vars

\* Candidates that differ in the fields the merge does not compute:
\* description (spellings of overlapping word sets), category,
\* current_workaround and a field the prompt does not name
FrameCands ==
    {Dict(<<Field("description", <<d>>), Field("category", f[1]),
            Field("current_workaround", f[2]), Field("notes", f[3])>>) :
        d \in {"a b", "A b c", "z"},
        f \in {<< <<>>, <<>>, <<>> >>,
               << <<"quality_issue">>, <<>>, <<>> >>,
               << <<"workflow_friction">>, <<"w1">>, <<>> >>,
               << <<"pricing">>, <<"w2">>, <<"n1">> >>}}

InitFrame == InitDedup(FrameCands, {DefaultThreshold})

SpecFrame == InitFrame /\ [][NextDedup]_vars

\* Candidates with JSON nulls: none, nulls where the prompt asks for them
\* (payment_quote, current_workaround), a null description, a null
\* source_urls, a null representative_quotes. The sort keys (unique_users,
\* emotional_intensity) are never null here.
NullCands ==
    {Dict(<<Field("description", c[1]), Field("source_urls", c[2]),
            Field(NoneKeys, c[3])>>) :
        c \in {<< <<"a">>, << <<"hn_1">> >>, <<>> >>,
               << <<"a">>, << <<"g2.com/z">> >>, <<{"payment_quote", "current_workaround"}>> >>,
               << <<"b">>, << <<"hn_1">> >>, <<{"representative_quotes"}>> >>,
               << <<"b">>, <<>>, <<{"source_urls"}>> >>,
               << <<"c">>, <<>>, <<{"source_urls"}>> >>,
               << <<>>, << <<"hn_1">> >>, <<{"description"}>> >>,
               << <<>>, <<>>, <<{"description", "source_urls"}>> >>}}

InitNull == InitDedup(NullCands, {DefaultThreshold})

SpecNull == InitNull /\ [][NextDedup]_vars

\* Candidates whose URLs each name two platforms, neighbours in the order
\* of the branches of _extract_platforms, or none
PrecedenceCands ==
    {Dict(<<Field("description", <<d>>), Field("source_urls", u)>>) :
        d \in {"a", "b"},
        u \in {<<>>,
               << <<"ex.org/p">> >>,
               << <<"reddit.com/hn_1", "producthunt.com/Reddit.com">> >>,
               << <<"x.com/producthunt.com", "g2.com/twitter.com">> >>,
               << <<"capterra.com/g2.com", "capterra.com">> >>}}

InitPrecedence == InitDedup(PrecedenceCands, {DefaultThreshold})

SpecPrecedence == InitPrecedence /\ [][NextDedup]_vars

DedupIdle ==
    /\ pain_points = <<>>
    /\ threshold = DefaultThreshold
    /\ clusters = <<>>
    /\ i = 1
    /\ j = 1
    /\ merged_points = <<>>
    /\ pc = "idle"
    /\ run = 1
    /\ first_result = <<>>
    /\ first_clusters = <<>>

ScoreIdle ==
    /\ posts = <<>>
    /\ cfg = <<>>
    /\ topic = ""
    /\ post_i = 1
    /\ spc = "idle"
    /\ arrived = <<>>

\* What the summarizer can answer to one batch: the call raises, or it gives
\* a text. `holds` says what the answer carries (a JSON list, another JSON
\* document, no JSON) and `items` the candidates of a list.
Answers ==
    LET a == Dict(<<Field("description", <<"a">>)>>)
        bc == Dict(<<Field("description", <<"b c">>), Field("source_urls", << <<"hn_1">> >>)>>)
        null == Dict(<<Field(NoneKeys, <<{"description"}>>)>>)
    IN {[raises |-> TRUE, text |-> "", holds |-> "nothing", items |-> <<>>],
        [raises |-> FALSE, text |-> "Sorry, I cannot help.", holds |-> "no JSON", items |-> <<>>],
        [raises |-> FALSE, text |-> "{\"error\": \"quota\"}\n", holds |-> "object", items |-> <<>>],
        [raises |-> FALSE, text |-> Fence \o "json[]" \o Fence, holds |-> "list", items |-> <<>>],
        [raises |-> FALSE, text |-> Fence \o "json\n[{\"description\": \"a\"}]\n" \o Fence \o "\n",
         holds |-> "list", items |-> <<a>>],
        [raises |-> FALSE,
         text |-> " [{\"description\": \"b c\", \"source_urls\": [\"hn_1\"]}, {\"description\": \"a\"}]",
         holds |-> "list", items |-> <<bc, a>>],
        [raises |-> FALSE, text |-> Fence \o "\n[{\"description\": null}, {\"description\": null}]" \o Fence,
         holds |-> "list", items |-> <<null, null>>]}

\* analyze_posts called with 0..MaxSent posts, named 1, 2, ... in input order
InitBatches ==
    /\ genai_installed \in BOOLEAN
    /\ api_key \in {"", "key"}
    /\ posts_data \in {[k \in 1..n |-> k] : n \in 0..MaxSent}
    /\ batch_i = 0
    /\ all_pain_points = <<>>
    /\ prompts = <<>>
    /\ responses = <<>>
    /\ apc = "start"
    /\ DedupIdle
    /\ ScoreIdle
    /\ FetchIdle
    /\ CliIdle

NextBatches ==
    \/ NoClient
    \/ Prepare
    \/ BatchStep(Answers)
    \/ Deduplicate
    \/ NextDedup

SpecBatches == InitBatches /\ [][NextBatches]_vars

\* What a request can end with. `ok` says whether the request succeeded:
\* a response arrived and its body is a JSON document.
Outcomes ==
    {[kind |-> "http", code |-> c, body |-> "", ok |-> FALSE] : c \in {403, 404, 429, 500}}
    \cup {[kind |-> "urlerror", code |-> 0, body |-> "", ok |-> FALSE]}
    \cup {[kind |-> "body", code |-> 200, body |-> "<html>busy</html>", ok |-> FALSE],
          [kind |-> "body", code |-> 200, body |-> "{\"data\": {\"children\": []}}", ok |-> TRUE],
          [kind |-> "body", code |-> 200, body |-> "[]", ok |-> TRUE]}

\* _fetch_json called with or without params
InitFetch ==
    /\ \E params \in {<<>>, [q |-> "ai"]} :
          fetch_url = IF params # <<>> THEN "https://www.reddit.com/search.json" \o "?" \o urlencode(params)
                      ELSE "https://www.reddit.com/search.json"
    /\ attempt = 0
    /\ fetch_log = <<>>
    /\ slept = <<>>
    /\ fetch_result = <<>>
    /\ fpc = "try"
    /\ DedupIdle
    /\ ScoreIdle
    /\ BatchIdle
    /\ CliIdle

NextFetch == Attempt(Outcomes)

SpecFetch == InitFetch /\ [][NextFetch]_vars

\* Each pass through the loop ends: urlopen has a timeout and the sleeps are
\* finite, so a call that can take a step takes it.
SpecFetchLive == SpecFetch /\ WF_vars(NextFetch)

\* A post as a source hands it to cmd_search: the platform is the source's
Fetched(id, platform, t, title, body, points, queries) ==
    Dict(<<Field("id", <<id>>), Field("platform", <<platform>>), Field("topic", <<t>>),
           Field("title", <<title>>), Field("body", <<body>>), Field("points", <<points>>),
           Field("matched_queries", <<queries>>)>>)

CliTopic == "ai tools"

\* What the sources return to one search: nothing, a post above the analysis
\* threshold, or that post behind one below it
Fetches ==
    LET strong == Fetched("hn_1", "hn", CliTopic, "ai tools: hate it", "i'd pay, i wish",
                          200, <<"q1", "q2">>)
        weak == Fetched("reddit_2", "reddit", CliTopic, "ai tools", "", 3, <<"q1">>)
    IN {<<>>, <<strong>>, <<weak, strong>>}

\* The import files: one item that carries the id of the post above
Files ==
    {<<Dict(<<Field("id", <<"hn_1">>), Field("title", <<"ai tools: hate it, broken">>),
              Field("body", <<"i'd pay, i wish">>), Field("points", <<200>>)>>)>>}

Keys == {"", "key"}

\* Answers to a batch in the commands: the call raises, a list of one
\* candidate, a list of two candidates without description
CliAnswers ==
    {r \in Answers : \/ r.raises
                     \/ Len(r.items) = 1
                     \/ Len(r.items) = 2 /\ r.items[1] = r.items[2]}

InitCli ==
    /\ db_posts = <<>>
    /\ history = {}
    /\ runs = <<>>
    /\ last_run = NoRun
    /\ commands = 0
    /\ searched = {}
    /\ analyze_sent = <<>>
    /\ DedupIdle
    /\ ScoreIdle
    /\ BatchIdle
    /\ FetchIdle

NextCli ==
    \/ CmdSearch(Fetches, CliTopic, Keys, CliAnswers)
    \/ CmdImport(Files, CliTopic, {"hn", "x"}, Keys, CliAnswers)
    \/ CmdAnalyze(CliTopic, Keys, CliAnswers)

SpecCli == InitCli /\ [][NextCli]_vars

InitScore(Posts, Weights, Topics) ==
    /\ posts \in SeqsUpTo(Posts, MaxPosts)
    /\ cfg \in Weights
    /\ topic \in Topics
    /\ post_i = 1
    /\ spc = "score"
    /\ arrived = posts
    /\ pain_points = <<>>
    /\ threshold = DefaultThreshold
    /\ clusters = <<>>
    /\ i = 1
    /\ j = 1
    /\ merged_points = <<>>
    /\ pc = "idle"
    /\ run = 1
    /\ first_result = <<>>
    /\ first_clusters = <<>>
    /\ RestIdle

\* Posts of equal text length that differ in pain words, demand words,
\* points and matched queries
SignalPosts ==
    {Dict(<<Field("title", <<tb[1]>>), Field("body", <<tb[2]>>), Field("points", p),
            Field("matched_queries", q)>>) :
        tb \in {<<"AI: love it", "i'd buy">>, <<"ai: hate it", "i'd buy">>,
                <<"ai: hate it", "I'd pay">>},
        p \in {<<>>, <<3>>, <<200>>},
        q \in {<<>>, << <<"q1", "q2">> >>}}

\* cfg["scoring"]: the defaults, other weights, a negative weight
WeightConfigs ==
    {<<>>,
     [pain_weight |-> 50, demand_weight |-> 0, cross_query_weight |-> 100,
      engagement_weight |-> 10],
     [pain_weight |-> -30]}

\* no topic, a topic every post matches, a topic no post matches
SignalTopics == {"", "AI", "Video tools"}

InitSignals == InitScore(SignalPosts, WeightConfigs, SignalTopics)

SpecScore == InitSignals /\ [][NextScore]_vars

\* Posts with JSON nulls: none, a null in a field score_post does not read,
\* and a null in each field it reads
NullPosts ==
    {Dict(<<Field("title", c[1]), Field("body", c[2]), Field("points", c[3]),
            Field("matched_queries", c[4]), Field(NoneKeys, c[5])>>) :
        c \in {<< <<"ai: hate it">>, <<"i'd pay">>, <<3>>, << <<"q1">> >>, <<>> >>,
               << <<"ai: hate it">>, <<>>, <<3>>, <<>>, <<{"author"}>> >>,
               << <<>>, <<"i'd pay">>, <<3>>, <<>>, <<{"title"}>> >>,
               << <<"ai: hate it">>, <<>>, <<>>, <<>>, <<{"body"}>> >>,
               << <<"AI: love it">>, <<"">>, <<>>, <<>>, <<{"points"}>> >>,
               << <<"AI: love it">>, <<>>, <<200>>, <<>>, <<{"matched_queries"}>> >>}}

InitNullPosts == InitScore(NullPosts, {<<>>}, {"", "AI"})

SpecNullPosts == InitNullPosts /\ [][NextScore]_vars

\* Posts that differ in which words and phrases of the topics they hold
TopicPosts ==
    {Dict(<<Field("title", <<t>>), Field("body", b)>>) :
        t \in {"ai video tools", "tools", "ai", "video for ai tool", "cats", "videos ai"},
        b \in {<<>>, <<"Video Tools">>}}

\* no topic, one word, two words (one phrase), three words (two phrases)
TopicTopics == {"", "AI", "video tools", "AI video tools"}

InitTopic == InitScore(TopicPosts, {<<>>}, TopicTopics)

SpecTopic == InitTopic /\ [][NextScore]_vars

\* The post of the worked example, its text split over title and body at a
\* space, and posts that hold parts of it
ExamplePosts ==
    {Dict(<<Field("title", tb[1]), Field("body", tb[2])>>) :
        tb \in {<< <<"I wish there was a better ai video tool,">>,
                   <<"current ones are so expensive">> >>,
                << <<"I wish there was a better ai video tool,">>, <<>> >>,
                << <<>>, <<"current ones are so expensive">> >>,
                << <<"a better AI video tool">>, <<"">> >>,
                << <<"expensive">>, <<"wish">> >>}}

ExampleTopics == {"AI video tools", "video"}

InitExample == InitScore(ExamplePosts, WeightConfigs, ExampleTopics)

SpecExample == InitExample /\ [][NextScore]_vars

\* Topics that differ in what survives as a keyword: nothing (empty, stop
\* words, one-character tokens, punctuation), one word, several words
\* between stop words and punctuation, in capitals, with digits
KeywordTopics ==
    {"", "is it?", "a b", "x AI", "AI video tools", "The AI of Video-tools",
     "4k tools 2"}

KeywordPosts ==
    {Dict(<<Field("title", <<t>>)>>) :
        t \in {"ai video tools", "hate the 4k tool", "is it a b"}}

InitKeywords ==
    InitScore(KeywordPosts, {<<>>, [pain_weight |-> -30]}, KeywordTopics)

SpecKeywords == InitKeywords /\ [][NextScore]_vars

-----------------------------------------------------------------------------
(* Properties of the Deduplicator *)

Desc(n) == Get(pain_points[n], "description", "")

Returned == [k \in 1..Len(merged_points) |-> merged_points[k].pp]

\* Similarity of candidates n and m is >= threshold (inclusive).
Similar(n, m) ==
    LET sim == jaccard_similarity(Desc(n), Desc(m))
    IN sim[1] * threshold[2] >= threshold[1] * sim[2]

\* C1: Deduplicator idempotence. When the Deduplicator has run on its own
\* output with the same threshold, it returns a list of the same length with
\* the same records in the same order, and the second run merged nothing
\* (every cluster of the second run is a singleton).
C1_Idempotent ==
    (run = 2 /\ pc = "done") =>
        /\ Len(merged_points) = Len(first_result)
        /\ Returned = first_result
        /\ \A k \in 1..Len(clusters) : Len(clusters[k]) = 1

\* C1 witness: a second run has finished on an output of two or more records
\* of which one was merged from several candidates by the first run.
C1_Witness ==
    /\ run = 2
    /\ pc = "done"
    /\ Len(first_result) >= 2
    /\ \E k \in 1..Len(first_clusters) : Len(first_clusters[k]) >= 2

\* C2: greedy first-match clustering. Clusters stand in creation order; every
\* processed candidate n that some earlier-created cluster's first member
\* matches (similarity >= threshold) is a later member of the FIRST such
\* cluster, whatever the similarity to later clusters; a candidate that no
\* earlier cluster matches is the first member of a cluster appended behind
\* all clusters that existed then.
C2_GreedyFirstMatch ==
    /\ \A k \in 1..(Len(clusters) - 1) : clusters[k][1] < clusters[k + 1][1]
    /\ \A k \in 1..Len(clusters) :
          \A a, b \in 1..Len(clusters[k]) : a < b => clusters[k][a] < clusters[k][b]
    /\ \A n \in 1..(i - 1) :
          LET earlier == {k \in 1..Len(clusters) : clusters[k][1] < n}
              passing == {k \in earlier : Similar(n, clusters[k][1])}
          IN IF passing # {}
             THEN \E a \in 2..Len(clusters[SetMin(passing)]) :
                      clusters[SetMin(passing)][a] = n
             ELSE /\ Cardinality(earlier) < Len(clusters)
                  /\ clusters[Cardinality(earlier) + 1][1] = n

\* C2 witness: a candidate has joined cluster k1 although a later cluster k2,
\* which already existed and also passes, has a strictly more similar
\* representative.
C2_Witness ==
    \E n \in 1..(i - 1) : \E k1, k2 \in 1..Len(clusters) :
        /\ k1 < k2
        /\ clusters[k2][1] < n
        /\ n \in Range(Tail(clusters[k1]))
        /\ Similar(n, clusters[k2][1])
        /\ LET s1 == jaccard_similarity(Desc(n), Desc(clusters[k1][1]))
               s2 == jaccard_similarity(Desc(n), Desc(clusters[k2][1]))
           IN s2[1] * s1[2] > s1[1] * s2[2]

\* The candidates that make up the cluster a returned record came from
Members(e) == [a \in 1..Len(clusters[e.cl]) |-> pain_points[clusters[e.cl][a]]]

Users(pp) == Get(pp, "unique_users", 0)

\* C3: unique-users monotonic merge. The unique_users of the pain point
\* produced for a cluster is the maximum of its members' unique_users (absent
\* counted as 0): it equals some member's value and no member's value
\* exceeds it.
C3_UniqueUsersMax ==
    \A k \in 1..Len(merged_points) :
        LET e == merged_points[k]
            m == Members(e)
        IN /\ \E a \in 1..Len(m) : Users(e.pp) = Users(m[a])
           /\ \A a \in 1..Len(m) : Users(e.pp) >= Users(m[a])

\* C3 witness: a returned record merged from three members of which the first
\* has no unique_users and the other two both name users, so that the
\* maximum is neither the first member's value nor the sum.
C3_Witness ==
    /\ pc = "done"
    /\ \E k \in 1..Len(merged_points) :
          LET m == Members(merged_points[k])
          IN /\ Len(m) = 3
             /\ "unique_users" \notin DOMAIN m[1]
             /\ Users(m[2]) >= 1
             /\ Users(m[3]) >= 1
             /\ Users(merged_points[k].pp) < Users(m[2]) + Users(m[3])

Consistent(pp) ==
    Get(pp, "payment_quote", "") # "" => Get(pp, "payment_signal", FALSE) = TRUE

\* C6: payment consistency is preserved. If every input candidate has a
\* payment_quote only when its payment_signal is true, every record built so
\* far, merged or passed through, has a non-empty payment_quote only when its
\* payment_signal is true.
C6_PaymentConsistent ==
    (\A n \in 1..Len(pain_points) : Consistent(pain_points[n]))
        => \A k \in 1..Len(merged_points) : Consistent(merged_points[k].pp)

\* C6 witness: consistent inputs, and a returned record whose quote was
\* taken over from a later member because the first member, with
\* payment_signal false, had none.
C6_Witness ==
    /\ pc = "done"
    /\ \A n \in 1..Len(pain_points) : Consistent(pain_points[n])
    /\ \E k \in 1..Len(merged_points) :
          LET m == Members(merged_points[k])
          IN /\ Len(m) >= 2
             /\ Get(m[1], "payment_signal", FALSE) = FALSE
             /\ Get(m[1], "payment_quote", "") = ""
             /\ Get(merged_points[k].pp, "payment_quote", "") # ""

\* C7: after tagging, platform_count = max(1, number of distinct platform
\* tags of the record's source_urls), hence >= 1, and cross_platform_signal
\* is "strong" iff platform_count >= 3, "moderate" iff = 2, "single" iff = 1.
C7_PlatformCount ==
    pc \in {"sort", "done"} =>
        \A k \in 1..Len(merged_points) :
            LET pp == merged_points[k].pp
                tags == extract_platforms(Get(pp, "source_urls", <<>>))
            IN /\ pp["platform_count"] = (IF Cardinality(tags) > 1 THEN Cardinality(tags) ELSE 1)
               /\ pp["platform_count"] >= 1
               /\ pp["cross_platform_signal"] = "strong" <=> pp["platform_count"] >= 3
               /\ pp["cross_platform_signal"] = "moderate" <=> pp["platform_count"] = 2
               /\ pp["cross_platform_signal"] = "single" <=> pp["platform_count"] = 1

\* C7 witness: tagged records of which one has URLs but no recognizable one
\* (platform_count 1) and another has three platforms ("strong").
C7_Witness ==
    /\ pc = "done"
    /\ \E k \in 1..Len(merged_points) :
          /\ Get(merged_points[k].pp, "source_urls", <<>>) # <<>>
          /\ merged_points[k].pp["platforms"] = <<>>
          /\ merged_points[k].pp["platform_count"] = 1
    /\ \E k \in 1..Len(merged_points) :
          merged_points[k].pp["cross_platform_signal"] = "strong"

Orderings(q) ==
    {[k \in 1..Len(q) |-> q[f[k]]] :
        f \in {g \in [1..Len(q) -> 1..Len(q)] : \A a, b \in 1..Len(q) : g[a] = g[b] => a = b}}

Derived(pp) ==
    <<pp["platforms"], pp["platform_count"], pp["cross_platform_signal"]>>

\* C8: cross-platform determinism. For every tagged record, tagging it with
\* its source_urls in any other order gives the same platforms,
\* platform_count and cross_platform_signal; platforms is in strictly
\* ascending alphabetical order.
C8_OrderInvariant ==
    pc = "done" =>
        \A k \in 1..Len(merged_points) :
            LET pp == merged_points[k].pp
            IN /\ \A a, b \in 1..Len(pp["platforms"]) :
                     a < b => StrLess(pp["platforms"][a], pp["platforms"][b])
               /\ "source_urls" \in DOMAIN pp =>
                     \A q \in Orderings(pp["source_urls"]) :
                         Derived(Tagged(Put(pp, "source_urls", q))) = Derived(pp)

\* C8 witness: a tagged record whose URLs name two or more platforms in an
\* order that is not the alphabetical order of the tags.
C8_Witness ==
    /\ pc = "done"
    /\ \E k \in 1..Len(merged_points) :
          LET urls == Get(merged_points[k].pp, "source_urls", <<>>)
          IN \E a, b \in 1..Len(urls) :
                /\ a < b
                /\ PlatformOf(urls[a]) # {} /\ PlatformOf(urls[b]) # {}
                /\ \E s \in PlatformOf(urls[a]), t \in PlatformOf(urls[b]) : StrLess(t, s)

RankOf(pp) == <<pp["platform_count"], Users(pp), Get(pp, "emotional_intensity", 0)>>

Before(x, y) ==
    \/ x[1] > y[1]
    \/ x[1] = y[1] /\ x[2] > y[2]
    \/ x[1] = y[1] /\ x[2] = y[2] /\ x[3] > y[3]

\* C9: final ranking. The returned list is in descending lexicographic order
\* of (platform_count, unique_users, emotional_intensity), and records with
\* equal tuples stand in the order in which their clusters were created.
C9_Ranking ==
    pc = "done" =>
        \A a, b \in 1..Len(merged_points) :
            a < b =>
                LET x == RankOf(merged_points[a].pp)
                    y == RankOf(merged_points[b].pp)
                IN /\ ~Before(y, x)
                   /\ x = y => merged_points[a].cl < merged_points[b].cl

\* C9 witness: a returned list of three records in which the sort moved a
\* later cluster to the front, two records tie on the whole tuple, and two
\* records tie on platform_count and unique_users only.
C9_Witness ==
    /\ pc = "done"
    /\ Len(merged_points) = 3
    /\ \E a, b \in 1..3 : a < b /\ merged_points[a].cl > merged_points[b].cl
    /\ \E a, b \in 1..3 :
          a < b /\ RankOf(merged_points[a].pp) = RankOf(merged_points[b].pp)
    /\ \E a, b \in 1..3 :
          LET x == RankOf(merged_points[a].pp)
              y == RankOf(merged_points[b].pp)
          IN a < b /\ x[1] = y[1] /\ x[2] = y[2] /\ x[3] > y[3]

Quotes(pp) == Get(pp, "representative_quotes", <<>>)

RECURSIVE AllQuotes(_)
AllQuotes(m) == IF m = <<>> THEN <<>> ELSE Quotes(Head(m)) \o AllQuotes(Tail(m))

\* C10: every returned pain point, merged or never merged, has at most 5
\* representative_quotes; for a cluster of two or more members they are the
\* first 5 entries of the members' quote lists concatenated in cluster order.
C10_AtMostFiveQuotes ==
    pc = "done" =>
        \A k \in 1..Len(merged_points) :
            LET e == merged_points[k]
                all == AllQuotes(Members(e))
            IN /\ Len(Quotes(e.pp)) <= 5
               /\ Len(clusters[e.cl]) >= 2 =>
                     Quotes(e.pp) = SubSeq(all, 1, IF Len(all) < 5 THEN Len(all) ELSE 5)

Urls(pp) == Get(pp, "source_urls", <<>>)

RECURSIVE AllUrls(_)
AllUrls(m) == IF m = <<>> THEN <<>> ELSE Urls(Head(m)) \o AllUrls(Tail(m))

\* q lists exactly the values of `all`, each once, in the order in which
\* they first appear in `all`
FirstAppearances(q, all) ==
    /\ Range(q) = Range(all)
    /\ \A a, b \in 1..Len(q) : a # b => q[a] # q[b]
    /\ \A a, b \in 1..Len(q) :
          a < b => SetMin({k \in 1..Len(all) : all[k] = q[a]})
                     < SetMin({k \in 1..Len(all) : all[k] = q[b]})

\* C11: every returned pain point, merged or never merged, has a source_urls
\* sequence in which each URL occurs at most once, ordered by first
\* appearance across the cluster's members taken in cluster order.
C11_UrlsOnce ==
    pc = "done" =>
        \A k \in 1..Len(merged_points) :
            FirstAppearances(Urls(merged_points[k].pp),
                             AllUrls(Members(merged_points[k])))

PaySignal(pp) == Get(pp, "payment_signal", FALSE)

PayQuote(pp) == Get(pp, "payment_quote", "")

\* The later members (positions 2..) that have payment_signal true and a
\* non-empty payment_quote
QuoteDonors(m) == {a \in 2..Len(m) : PaySignal(m[a]) /\ PayQuote(m[a]) # ""}

\* C12: payment merge rule. For a cluster of two or more members the merged
\* payment_signal is true iff some member's payment_signal is true; the merged
\* payment_quote is the first member's when that is non-empty, otherwise the
\* quote of the earliest later member that has payment_signal true and a
\* non-empty quote, otherwise there is no quote (the field is as the first
\* member had it: not there, or empty).
C12_PaymentMerge ==
    \A k \in 1..Len(merged_points) :
        LET e == merged_points[k]
            m == Members(e)
        IN Len(m) >= 2 =>
             /\ PaySignal(e.pp) <=> \E a \in 1..Len(m) : PaySignal(m[a])
             /\ IF PayQuote(m[1]) # ""
                THEN PayQuote(e.pp) = PayQuote(m[1])
                ELSE IF QuoteDonors(m) # {}
                THEN PayQuote(e.pp) = PayQuote(m[SetMin(QuoteDonors(m))])
                ELSE /\ PayQuote(e.pp) = ""
                     /\ "payment_quote" \in DOMAIN e.pp <=> "payment_quote" \in DOMAIN m[1]

\* C12 witness: a returned record merged from three members: the first has
\* no quote and no signal, the second and the third both have a signal and
\* a quote, the two quotes differ, and the merged record has the second's.
C12_Witness ==
    /\ pc = "done"
    /\ \E k \in 1..Len(merged_points) :
          LET m == Members(merged_points[k])
          IN /\ Len(m) = 3
             /\ ~PaySignal(m[1]) /\ PayQuote(m[1]) = ""
             /\ QuoteDonors(m) = {2, 3}
             /\ PayQuote(m[2]) # PayQuote(m[3])
             /\ PayQuote(merged_points[k].pp) = PayQuote(m[2])
             /\ PaySignal(merged_points[k].pp)

\* The fields the merge computes, and the fields the tagging adds
MergedFields ==
    {"source_urls", "representative_quotes", "unique_users",
     "emotional_intensity", "payment_signal", "payment_quote"}

TagFields == {"platforms", "platform_count", "cross_platform_signal"}

\* C13: merging a cluster changes only source_urls, representative_quotes,
\* unique_users, emotional_intensity, payment_signal and payment_quote. Every
\* other field of the merged record (the tagging fields, added afterwards,
\* aside) is a field of the cluster's first member with the first member's
\* value, every other field of the first member is in the merged record, and
\* so a field that only later members have is not in it.
C13_MergeFrame ==
    \A k \in 1..Len(merged_points) :
        LET e == merged_points[k]
            m == Members(e)
            kept == DOMAIN e.pp \ (MergedFields \cup TagFields)
        IN Len(m) >= 2 =>
             /\ kept = DOMAIN m[1] \ (MergedFields \cup TagFields)
             /\ \A f \in kept : e.pp[f] = m[1][f]

\* C13 witness: a returned record merged from members of which a later one
\* has another description, another category, and fields (current_workaround,
\* notes) that the first member lacks.
C13_Witness ==
    /\ pc = "done"
    /\ \E k \in 1..Len(merged_points) :
          LET m == Members(merged_points[k])
          IN /\ Len(m) >= 2
             /\ \E a \in 2..Len(m) :
                   /\ m[a]["description"] # m[1]["description"]
                   /\ "category" \in DOMAIN m[1] \cap DOMAIN m[a]
                   /\ m[a]["category"] # m[1]["category"]
                   /\ {"current_workaround", "notes"} \subseteq DOMAIN m[a] \ DOMAIN m[1]

\* C15: a candidate whose description is missing or empty ends as its own
\* singleton cluster, for every threshold in (0, 1]: at every point of the
\* clustering and after it, a cluster that holds such a candidate holds
\* nothing else (it joined no cluster, nothing joined the cluster it started,
\* and two such candidates are in different clusters).
C15_EmptyDescriptionAlone ==
    (threshold[1] > 0 /\ threshold[1] <= threshold[2]) =>
        \A k \in 1..Len(clusters) :
            (\E a \in 1..Len(clusters[k]) : Desc(clusters[k][a]) = "")
                => Len(clusters[k]) = 1

\* C15 witness: the clustering has ended at the lowest threshold with three
\* singleton clusters: a candidate without description, one with an empty
\* description, and one with words.
C15_Witness ==
    /\ pc = "merge"
    /\ threshold = <<1, 4>>
    /\ Len(pain_points) = 3
    /\ "description" \notin DOMAIN pain_points[1]
    /\ Get(pain_points[2], "description", "x") = ""
    /\ Desc(3) # ""
    /\ clusters = << <<1>>, <<2>>, <<3>> >>

\* C14: neither score_post nor the Deduplicator (clustering, merge, tagging,
\* ranking) ever raises for a record whose fields are each absent, null or
\* valid: no call ends in an exception.
C14_NeverRaises == pc # "raised" /\ spc # "raised"

\* C16: purity of the core. score_posts and the Deduplicator leave the
\* caller's inputs unchanged: no step of a call changes the caller's list of
\* posts or of candidates (its order, its length, the fields and values of
\* its records), so that no returned record is a caller's record modified
\* in place. (From "done" the Deduplicator is called anew, on another list.)
C16_InputsUnchanged ==
    [][/\ posts' = posts
       /\ pc # "done" => pain_points' = pain_points]_vars

-----------------------------------------------------------------------------
(* Properties of the Relevance Scorer *)

IsScored(post) == "relevance_score" \in DOMAIN post

Points(post) == Get(post, "points", 0)

Queries(post) == Len(Get(post, "matched_queries", <<>>))

\* C4: zero clamp. For a topic with at least one keyword, a scored post whose
\* lowercased title + " " + body contains none of the topic's stems has
\* topic_relevance 0 and relevance_score 0, whatever its pain_score,
\* demand_score, points, matched_queries and the weights.
C4_ZeroClamp ==
    LET info == extract_topic_keywords(topic)
    IN (topic # "" /\ Len(info.words) >= 1) =>
         \A k \in 1..Len(posts) :
            (/\ IsScored(posts[k])
             /\ \A w \in info.stems : ~Contains(TextOf(posts[k]), w))
            => /\ posts[k]["topic_relevance"] = 0
               /\ posts[k]["relevance_score"] = 0

\* C4 witness: a scored post with a pain word, a demand phrase, points and
\* matched queries, under weights that are not the defaults, and a topic
\* with keywords none of whose stems is in the text.
C4_Witness ==
    \E k \in 1..Len(posts) :
        /\ IsScored(posts[k])
        /\ Len(extract_topic_keywords(topic).words) >= 1
        /\ \A w \in extract_topic_keywords(topic).stems : ~Contains(TextOf(posts[k]), w)
        /\ posts[k]["pain_score"] >= 1
        /\ posts[k]["demand_score"] >= 1
        /\ Points(posts[k]) > 0
        /\ Queries(posts[k]) > 0
        /\ DOMAIN cfg # {}

\* Post a has at most the signals of post b, everything else that enters the
\* score (topic_relevance, text length) being equal.
SignalsAtMost(a, b) ==
    /\ a["topic_relevance"] = b["topic_relevance"]
    /\ a["pain_score"] <= b["pain_score"]
    /\ a["demand_score"] <= b["demand_score"]
    /\ Queries(a) <= Queries(b)
    /\ Points(a) <= Points(b)
    /\ Len(TextOf(a)) = Len(TextOf(b))

NonNegativeWeights ==
    /\ Get(cfg, "pain_weight", 30) >= 0
    /\ Get(cfg, "demand_weight", 25) >= 0
    /\ Get(cfg, "cross_query_weight", 15) >= 0
    /\ Get(cfg, "engagement_weight", 30) >= 0

\* C5 as claimed: for any weights configuration and fixed topic_relevance,
\* relevance_score is non-decreasing in pain_score, demand_score, the number
\* of matched_queries and points. Of two posts scored under the same weights,
\* the one with at most the other's signals has at most its relevance_score.
C5_MonotoneAnyWeights ==
    \A a, b \in 1..Len(posts) :
        (IsScored(posts[a]) /\ IsScored(posts[b]) /\ SignalsAtMost(posts[a], posts[b]))
            => posts[a]["relevance_score"] <= posts[b]["relevance_score"]

\* C5 amended: the same, for a weights configuration whose four weights are
\* non-negative.
C5_MonotoneNonNegativeWeights ==
    NonNegativeWeights => C5_MonotoneAnyWeights

\* C5 witness: non-negative weights and two scored posts with equal, positive
\* topic_relevance, of which one has strictly more of every signal and the
\* strictly higher relevance_score.
C5_Witness ==
    /\ NonNegativeWeights
    /\ \E a, b \in 1..Len(posts) :
          /\ IsScored(posts[a]) /\ IsScored(posts[b])
          /\ SignalsAtMost(posts[a], posts[b])
          /\ posts[a]["topic_relevance"] > 0
          /\ posts[a]["pain_score"] < posts[b]["pain_score"]
          /\ posts[a]["demand_score"] < posts[b]["demand_score"]
          /\ Queries(posts[a]) < Queries(posts[b])
          /\ Points(posts[a]) < Points(posts[b])
          /\ posts[a]["relevance_score"] < posts[b]["relevance_score"]

\* the phrases of the topic handed to score_posts
TopicPhrases == IF topic = "" THEN <<>> ELSE extract_topic_keywords(topic).phrases

HasPhrase(text) == \E k \in 1..Len(TopicPhrases) : Contains(text, TopicPhrases[k])

\* C17: topic relevance monotonicity. For the topic of the call and the text
\* t of any scored post, t with a phrase of the topic appended (directly or
\* behind a space) has a topic_relevance >= that of t; and of two scored
\* posts, one whose text holds a phrase of the topic has a strictly higher
\* topic_relevance than one whose text holds none.
C17_PhraseMonotone ==
    /\ \A k \in 1..Len(posts) : \A n \in 1..Len(TopicPhrases) :
          IsScored(posts[k]) =>
            LET t == TextOf(posts[k])
                info == TopicInfo(topic)
            IN /\ topic_relevance(t \o TopicPhrases[n], info) * 5 >= posts[k]["topic_relevance"]
               /\ topic_relevance(t \o " " \o TopicPhrases[n], info) * 5 >= posts[k]["topic_relevance"]
    /\ \A a, b \in 1..Len(posts) :
          (/\ IsScored(posts[a]) /\ IsScored(posts[b])
           /\ HasPhrase(TextOf(posts[a])) /\ ~HasPhrase(TextOf(posts[b])))
          => posts[a]["topic_relevance"] > posts[b]["topic_relevance"]

\* C17 witness: under a topic of three words two posts are scored, the
\* second being the first with a phrase of the topic appended behind a
\* space; the first holds every word of the topic but no phrase (0.4), the
\* second scores higher.
C17_Witness ==
    /\ Len(TopicPhrases) = 2
    /\ Len(posts) = 2
    /\ IsScored(posts[1]) /\ IsScored(posts[2])
    /\ \E n \in 1..Len(TopicPhrases) :
          TextOf(posts[2]) = TextOf(posts[1]) \o TopicPhrases[n]
    /\ ~HasPhrase(TextOf(posts[1]))
    /\ posts[1]["topic_relevance"] = 40
    /\ posts[2]["topic_relevance"] > 40

\* the distinct words of the topic handed to score_posts
TopicWords == IF topic = "" THEN {} ELSE Range(extract_topic_keywords(topic).words)

\* the word or its singular/plural variant is in the text
WordPresent(w, text) == \E v \in StemsOf(w) : Contains(text, v)

\* the number of stems of the topic that are in the text
StemsIn(text) ==
    Cardinality({v \in extract_topic_keywords(topic).stems : Contains(text, v)})

\* C18: for a topic with words and a scored post whose text holds no phrase
\* of the topic, topic_relevance is 0.4 if and only if every distinct word of
\* the topic is in the text (as the word or its singular/plural variant); a
\* text that lacks a word of the topic gets at most 0.15, and 0.1 when
\* exactly one stem is in it and the topic has more than one distinct word.
C18_AllWordsIffPointFour ==
    \A k \in 1..Len(posts) :
        (IsScored(posts[k]) /\ TopicWords # {} /\ ~HasPhrase(TextOf(posts[k]))) =>
            LET t == TextOf(posts[k])
                all == \A w \in TopicWords : WordPresent(w, t)
            IN /\ posts[k]["topic_relevance"] = 40 <=> all
               /\ ~all => posts[k]["topic_relevance"] <= 15
               /\ (~all /\ StemsIn(t) = 1 /\ Cardinality(TopicWords) > 1)
                     => posts[k]["topic_relevance"] = 10

ScoreFields == {"pain_score", "demand_score", "relevance_score", "topic_relevance"}

\* post is the arrived post `old` with the four score fields added
Extends(post, old) ==
    /\ DOMAIN post = DOMAIN old \cup ScoreFields
    /\ \A f \in DOMAIN old \ ScoreFields : post[f] = old[f]

\* the one-to-one assignments of the positions 1..n to the positions 1..n
Bijections(n) ==
    {f \in [1..n -> 1..n] : \A a, b \in 1..n : f[a] = f[b] => a = b}

\* C19: score_posts returns every input post exactly once, each extended with
\* pain_score, demand_score, relevance_score and topic_relevance, in
\* descending order of relevance_score, posts of equal relevance_score in
\* their arrival order.
C19_StableDescending ==
    spc = "done" =>
        /\ Len(posts) = Len(arrived)
        /\ \A a, b \in 1..Len(posts) :
              a < b => posts[a]["relevance_score"] >= posts[b]["relevance_score"]
        /\ \E f \in Bijections(Len(posts)) :
              /\ \A k \in 1..Len(posts) : Extends(posts[k], arrived[f[k]])
              /\ \A a, b \in 1..Len(posts) :
                    (a < b /\ posts[a]["relevance_score"] = posts[b]["relevance_score"])
                        => f[a] < f[b]

\* C19 witness: score_posts has returned two posts of different
\* relevance_score, the one that arrived second standing first.
C19_Witness ==
    /\ spc = "done"
    /\ Len(posts) = 2
    /\ arrived[1] # arrived[2]
    /\ Extends(posts[1], arrived[2])
    /\ Extends(posts[2], arrived[1])
    /\ posts[1]["relevance_score"] > posts[2]["relevance_score"]

ExampleText == "I wish there was a better ai video tool, current ones are so expensive"

\* the scored posts of the worked example: that text, topic "AI video tools"
ExampleScored ==
    {k \in 1..Len(posts) :
        /\ topic = "AI video tools"
        /\ IsScored(posts[k])
        /\ TextOf(posts[k]) = lower(ExampleText)}

PainHits(text) == {PAIN_WORDS[k] : k \in {n \in 1..Len(PAIN_WORDS) : Contains(text, PAIN_WORDS[n])}}

DemandHits(text) ==
    {DEMAND_WORDS[k] : k \in {n \in 1..Len(DEMAND_WORDS) : Contains(text, DEMAND_WORDS[n])}}

\* C20 as claimed: for topic "AI video tools" and the post whose text is
\* "I wish there was a better ai video tool, current ones are so expensive",
\* score_post returns topic_relevance 0.8, pain_score 1 and demand_score 1.
C20_ExampleAsClaimed ==
    \A k \in ExampleScored :
        /\ posts[k]["topic_relevance"] = 80
        /\ posts[k]["pain_score"] = 1
        /\ posts[k]["demand_score"] = 1

\* C20 amended: for that topic and that text score_post returns
\* topic_relevance 0.8, pain_score 2 (the pain-lexicon hits being "wish" and
\* "expensive") and demand_score 1 (the only demand-lexicon hit being
\* "wish there was").
C20_Example ==
    \A k \in ExampleScored :
        /\ posts[k]["topic_relevance"] = 80
        /\ posts[k]["pain_score"] = 2
        /\ PainHits(TextOf(posts[k])) = {"wish", "expensive"}
        /\ posts[k]["demand_score"] = 1
        /\ DemandHits(TextOf(posts[k])) = {"wish there was"}

\* C20 witness: the post of the worked example has been scored under the
\* topic of the worked example.
C20_Witness == ExampleScored # {}

\* The tokens of s: the positions <<a, b>> of its maximal runs of characters
\* in [a-z0-9]
TokenSpans(s) ==
    {ab \in (1..Len(s)) \X (1..Len(s)) :
        /\ ab[1] <= ab[2]
        /\ \A k \in ab[1]..ab[2] : Char(s, k) \in AlnumChars
        /\ ab[1] = 1 \/ Char(s, ab[1] - 1) \notin AlnumChars
        /\ ab[2] = Len(s) \/ Char(s, ab[2] + 1) \notin AlnumChars}

\* The retained tokens of s: no stop word, two characters or more
RetainedSpans(s) ==
    {ab \in TokenSpans(s) :
        /\ ab[2] - ab[1] + 1 >= 2
        /\ SubSeq(s, ab[1], ab[2]) \notin stop_words}

\* the n-th retained token of s, from the left
Retained(s, n) ==
    LET ab == CHOOSE x \in RetainedSpans(s) :
                 Cardinality({y \in RetainedSpans(s) : y[1] <= x[1]}) = n
    IN SubSeq(s, ab[1], ab[2])

C25_FilterOffOnlyForEmptyTopic ==
    \A k \in 1..Len(posts) :
        IsScored(posts[k]) =>
            /\ topic = "" => posts[k]["topic_relevance"] = 100
            /\ (topic # "" /\ RetainedSpans(lower(topic)) = {}) =>
                  /\ posts[k]["topic_relevance"] = 0
                  /\ posts[k]["relevance_score"] = 0
            /\ (topic # "" /\ ~HasPhrase(TextOf(posts[k]))) =>
                  posts[k]["topic_relevance"] < 100

\* C25 witness: under a non-empty topic of stop words and punctuation a post
\* with a pain word has been scored, and its text holds the topic's words.
C25_Witness ==
    /\ topic = "is it?"
    /\ \E k \in 1..Len(posts) :
          /\ IsScored(posts[k])
          /\ posts[k]["pain_score"] >= 1
    /\ \E k \in 1..Len(posts) :
          /\ IsScored(posts[k])
          /\ Contains(TextOf(posts[k]), "is it")

\* C22: clustering invariant. After each candidate is processed the clusters
\* partition the candidates processed so far (each is in exactly one cluster,
\* at one position; no cluster is empty), every non-first member of a
\* cluster has description similarity >= threshold to the cluster's first
\* member, the first members of two distinct clusters have similarity
\* < threshold to each other, and a step of a run never changes the first
\* member of a cluster that exists.
C22_ClusteringInvariant ==
    /\ [](/\ \A k \in 1..Len(clusters) : Len(clusters[k]) >= 1
          /\ \A n \in 1..(i - 1) :
                Cardinality({ka \in {<<k, a>> : k \in 1..Len(clusters), a \in 1..MaxCands + 1} :
                               /\ ka[2] <= Len(clusters[ka[1]])
                               /\ clusters[ka[1]][ka[2]] = n}) = 1
          /\ \A k \in 1..Len(clusters) : \A a \in 1..Len(clusters[k]) :
                clusters[k][a] \in 1..(i - 1)
          /\ \A k \in 1..Len(clusters) : \A a \in 2..Len(clusters[k]) :
                Similar(clusters[k][a], clusters[k][1])
          /\ \A k, m \in 1..Len(clusters) :
                k # m => ~Similar(clusters[k][1], clusters[m][1]))
    /\ [][pc # "done" =>
            \A k \in 1..Len(clusters) :
                /\ k <= Len(clusters')
                /\ clusters'[k][1] = clusters[k][1]]_vars

\* C22 witness: three candidates have been processed into a cluster of the
\* first and the third, whose descriptions differ, and a cluster of the
\* second.
C22_Witness ==
    /\ pc = "merge"
    /\ clusters = << <<1, 3>>, <<2>> >>
    /\ Desc(1) # Desc(3)
    /\ Desc(2) # ""

Precedence ==
    << <<"hn", {"news.ycombinator.com", "hn_"}>>,
       <<"reddit", {"reddit.com"}>>,
       <<"producthunt", {"producthunt.com"}>>,
       <<"twitter", {"twitter.com", "x.com"}>>,
       <<"g2", {"g2.com"}>>,
       <<"capterra", {"capterra.com"}>> >>

\* the ranks of the platforms that the URL names
Named(url) ==
    {r \in 1..Len(Precedence) : \E mark \in Precedence[r][2] : Contains(lower(url), mark)}

\* C24: each source URL contributes at most one platform tag, the one first
\* in the order hn > reddit > producthunt > twitter > g2 > capterra among
\* the platforms the URL names; hence the platforms of a tagged record are
\* those tags, and its platform_count is at most max(1, number of distinct
\* URLs in source_urls) and is in 1..6.
C24_OneTagByPrecedence ==
    pc = "done" =>
        \A k \in 1..Len(merged_points) :
            LET pp == merged_points[k].pp
                urls == Range(Urls(pp))
            IN /\ \A u \in urls :
                     /\ Cardinality(PlatformOf(u)) <= 1
                     /\ PlatformOf(u) = IF Named(u) = {} THEN {}
                                        ELSE {Precedence[SetMin(Named(u))][1]}
               /\ Range(pp["platforms"]) = UNION {PlatformOf(u) : u \in urls}
               /\ pp["platform_count"] <= Max(1, Cardinality(urls))
               /\ pp["platform_count"] \in 1..6

\* C24 witness: a returned record with six platforms, every one of whose
\* URLs that name a platform but the last names two.
C24_Witness ==
    /\ pc = "done"
    /\ \E k \in 1..Len(merged_points) :
          /\ merged_points[k].pp["platform_count"] = 6
          /\ Cardinality({u \in Range(Urls(merged_points[k].pp)) :
                             Cardinality(Named(u)) = 2}) = 5

\* The candidates the answers so far carry, batch after batch: those of the
\* answers that are JSON lists, nothing for the others
RECURSIVE Carried(_)
Carried(answers) ==
    IF answers = <<>> THEN <<>>
    ELSE Carried(SubSeq(answers, 1, Len(answers) - 1)) \o
         (IF answers[Len(answers)].holds = "list" THEN answers[Len(answers)].items ELSE <<>>)

RECURSIVE Flatten(_)
Flatten(qs) == IF qs = <<>> THEN <<>> ELSE Head(qs) \o Flatten(Tail(qs))

\* C29: the posts go to the summarizer in consecutive batches of at most 25,
\* in input order; a batch whose call raises or whose answer is not a JSON
\* list adds no candidate and the loop goes on to the last batch; the
\* Deduplicator is called with the candidates of the successful batches in
\* batch order.
C29_BatchIsolation ==
    /\ \A k \in 1..Len(prompts) : Len(prompts[k]) \in 1..25
    /\ Flatten(prompts) = SubSeq(posts_data, 1, Len(Flatten(prompts)))
    /\ Len(prompts) = Len(responses)
    /\ apc \in {"batch", "dedup"} => all_pain_points = Carried(responses)
    /\ apc = "dedup" => Flatten(prompts) = posts_data
    /\ (apc = "dedup" /\ pc = "cluster" /\ run = 1) => pain_points = Carried(responses)

\* three batches: the first and the third succeed with different candidates,
\* the second fails, and the Deduplicator has been called
C29_Witness ==
    /\ apc = "dedup" /\ pc = "cluster" /\ run = 1
    /\ Len(responses) = 3
    /\ responses[1].holds = "list" /\ Len(responses[1].items) = 2
    /\ responses[1].items[1] # responses[1].items[2]
    /\ responses[2].holds # "list"
    /\ responses[3].holds = "list" /\ Len(responses[3].items) = 1
    /\ Len(pain_points) = 3
    /\ Len(prompts[3]) = 1

\* The request outcomes the claim lets the call go on after: an HTTP 429,
\* or a failure that is not an HTTP error
MayRetryAfter(outcome) ==
    ~outcome.ok /\ (outcome.kind = "http" => outcome.code = 429)

\* C30: a call of _fetch_json makes at most 3 requests; it goes on only after
\* an HTTP 429 or a non-HTTP failure and only when fewer than 3 requests
\* have been made; any other HTTP error is raised at once; the failure of
\* the third request is raised; the first successful request's parsed body is
\* returned; and the call always ends.
C30_FetchTerminates ==
    /\ [](/\ Len(fetch_log) <= 3
          /\ \A k \in 1..(Len(fetch_log) - 1) : MayRetryAfter(fetch_log[k])
          /\ fpc = "try" => Len(fetch_log) < 3
          /\ fetch_log # <<>> =>
               LET last == fetch_log[Len(fetch_log)]
               IN /\ last.ok =>
                       /\ fpc = "returned"
                       /\ ~fetch_result.raised
                       /\ fetch_result.value =
                            (IF last.body = "[]" THEN <<>> ELSE [data |-> [children |-> <<>>]])
                  /\ (~last.ok /\ (~MayRetryAfter(last) \/ Len(fetch_log) = 3)) =>
                       /\ fpc = "raised"
                       /\ fetch_result.raised
                       /\ fetch_result.type = "HTTPError" <=> last.kind = "http"
                       /\ fetch_result.code = (IF last.kind = "http" THEN last.code ELSE 0)
                  /\ (MayRetryAfter(last) /\ Len(fetch_log) < 3) => fpc = "try"
          /\ fpc = "returned" => fetch_log # <<>> /\ fetch_log[Len(fetch_log)].ok
          /\ fpc = "raised" => fetch_log # <<>> /\ ~fetch_log[Len(fetch_log)].ok)
    /\ <>(fpc \in {"returned", "raised"})

\* a 429, then an unreadable body, then a success at the third request
C30_Witness ==
    /\ Len(fetch_log) = 3
    /\ fetch_log[1].kind = "http" /\ fetch_log[1].code = 429
    /\ fetch_log[2].kind = "body" /\ ~fetch_log[2].ok
    /\ fetch_log[3].ok
    /\ fpc = "returned"
    /\ slept = <<2, 2>>

\* The posts the last command sent to the summarizer
SentNow(r) == UNION {Range(r.sent[k].batch) : k \in DOMAIN r.sent}

\* C26: a post that a search run has scored, persisted and recorded in
\* history is, when a later search run fetches it again with the same id and
\* platform, not among the posts that run scores, persists or sends to the
\* summarizer.
C26_HistoryDedup ==
    [][(commands' = commands + 1 /\ last_run'.cmd = "search") =>
          \A k \in DOMAIN last_run'.fetched :
              last_run'.fetched[k] \in searched =>
                  /\ last_run'.fetched[k][1] \notin Range(last_run'.scored)
                  /\ last_run'.fetched[k][1] \notin SentNow(last_run')]_vars

\* C27: the analyzed flag of a stored post never goes back from 1 to 0; the
\* analyze command sends no post whose flag is 1; and the analyze command
\* sends each stored post at most once.
C27_AnalyzeOnce ==
    /\ [](\A id \in DOMAIN analyze_sent : analyze_sent[id] <= 1)
    /\ [][/\ \A id \in DOMAIN db_posts :
                db_posts[id].analyzed = 1 => (id \in DOMAIN db_posts' /\ db_posts'[id].analyzed = 1)
          /\ (commands' = commands + 1 /\ last_run'.cmd = "analyze") =>
                \A id \in SentNow(last_run') : id \in DOMAIN db_posts /\ db_posts[id].analyzed = 0]_vars

\* The flag never goes back, and the analyze command sends only posts whose
\* flag is 0 (holds; the count above is what fails, after a command that
\* ended in an exception behind the batch loop)
FlagMonotoneAndUnanalyzedOnly ==
    [][/\ \A id \in DOMAIN db_posts :
             db_posts[id].analyzed = 1 => (id \in DOMAIN db_posts' /\ db_posts'[id].analyzed = 1)
       /\ (commands' = commands + 1 /\ last_run'.cmd = "analyze") =>
             \A id \in SentNow(last_run') : id \in DOMAIN db_posts /\ db_posts[id].analyzed = 0]_vars

\* C28: a command sets a post's analyzed flag to 1 only if it sent the post
\* to the summarizer in a batch whose call returned a JSON list; a post whose
\* batch failed keeps analyzed = 0.
C28_AnalyzedOnlyOnSuccess ==
    [][commands' = commands + 1 =>
          \A id \in DOMAIN db_posts' :
              LET was == IF id \in DOMAIN db_posts THEN db_posts[id].analyzed ELSE 0
                  Ok(k) == id \in Range(last_run'.sent[k].batch) /\
                           last_run'.sent[k].response.holds = "list"
                  Failed(k) == id \in Range(last_run'.sent[k].batch) /\
                               last_run'.sent[k].response.holds # "list"
              IN /\ (was = 0 /\ db_posts'[id].analyzed = 1) => \E k \in DOMAIN last_run'.sent : Ok(k)
                 /\ (was = 0 /\ \E k \in DOMAIN last_run'.sent : Failed(k)) =>
                        db_posts'[id].analyzed = 0]_vars

====
